---- MODULE Spec2Model ----
(***************************************************************************)
(* ProDegeit planning engine: the forward-pass scheduler, the greedy       *)
(* skill-based resource allocator with duration adjustment, and the        *)
(* exhaustive risk-mitigation optimizer.                                   *)
(*                                                                         *)
(* Dates are day offsets from PROJECT_START (a Monday), so the weekday of  *)
(* day d is d % 7 (0 = Monday .. 6 = Sunday).  Probabilities are whole     *)
(* percents and money amounts are integers, so that every comparison the   *)
(* code makes on floats is made here on exact integers.                    *)
(***************************************************************************)
EXTENDS Integers, Sequences, FiniteSets, TLC

VARIABLES
    activities,       \* ResourceAllocator.activities: the list of Activity objects
    resources,        \* ResourceAllocator.resources: the pool, in pool order
    schedule,         \* ResourceAllocator.schedule: id -> [start, end, duration_days]
    allocation_map,   \* ResourceAllocator.allocation_map: id -> resources (pool positions)
    max_tasks,        \* allocate_resources(max_tasks_per_resource)
    factor,           \* allocate_resources(duration_adjustment_factor)
    pc,               \* where the run is
    next_idx,         \* position in sorted(activities, key=id) of the next activity
    iterations,       \* value of `iteration` when the last scheduler call left its loop
    risks,            \* RiskAnalyzer.risks
    mitigation_selections, \* RiskAnalyzer.mitigation_selections
    budget_constraint,\* argument of the last optimize_mitigation_strategy call
    best_strategy,    \* what that call returned
    results,          \* what allocate_resources returned
    scheduler_calls,  \* calculate_activity_schedule calls made by allocate_resources
    given_activities, \* the list of Activity objects the constructor was given
    given_resources,  \* the list of Resource objects the constructor was given
    adj               \* a function called on its own: its arguments and its result

vars == <<activities, resources, schedule, allocation_map, max_tasks, factor, pc,
          next_idx, iterations, risks, mitigation_selections, budget_constraint,
          best_strategy, results, scheduler_calls, given_activities,
          given_resources, adj>>

allocVars == <<activities, resources, schedule, allocation_map, max_tasks, factor,
               next_idx, iterations, results, scheduler_calls>>
callerVars == <<given_activities, given_resources>>
riskVars == <<risks, mitigation_selections, budget_constraint, best_strategy>>

----------------------------------------------------------------------------
(* Program constants *)

PROJECT_START == 0
HOURS_PER_DAY == 8
TIME_VALUE == 1000
DEFAULT_FACTOR == 2
\* None, for a date, an argument or a result
None == -1

\* None where the code holds a dictionary or None (a strategy, a mitigation)
NoneDict == [none |-> TRUE]

(* Bounds of the model *)

\* activities in the scheduler-only specification
NumActs == 3
\* longest duration, in working days (5 working days reach the next week)
MaxDur == 5
\* largest max_tasks_per_resource tried
MaxTasks == 2
\* highest skill level
MaxLevel == 4
\* longest mitigation menu of a risk
MaxOptions == 2
\* largest headcount an activity asks for when _adjust_duration is tried alone
MaxHeadcount == 2

Max(a, b) == IF a >= b THEN a ELSE b
Min(a, b) == IF a <= b THEN a ELSE b

RECURSIVE SeqSum(_)
SeqSum(s) == IF s = <<>> THEN 0 ELSE Head(s) + SeqSum(Tail(s))

Range(s) == {s[i] : i \in DOMAIN s}

\* the elements of a finite set of integers, ascending
RECURSIVE Ascending(_)
Ascending(S) ==
    IF S = {} THEN <<>>
    ELSE LET m == CHOOSE x \in S : \A y \in S : x <= y
         IN <<m>> \o Ascending(S \ {m})

----------------------------------------------------------------------------
(* Scheduler: ResourceAllocator.calculate_activity_schedule *)

\* datetime.weekday(): Monday = 0 .. Sunday = 6
Weekday(d) == d % 7

\* while start_date.weekday() > 4: start_date += timedelta(days=1)
RECURSIVE NextWorkingDay(_)
NextWorkingDay(d) == IF Weekday(d) > 4 THEN NextWorkingDay(d + 1) ELSE d

\* the loop of _add_working_days
RECURSIVE AddWorkingDaysLoop(_, _, _)
AddWorkingDaysLoop(current_date, days_added, working_days) ==
    IF days_added < working_days
    THEN LET nxt == current_date + 1
         IN AddWorkingDaysLoop(nxt,
                               IF Weekday(nxt) < 5 THEN days_added + 1 ELSE days_added,
                               working_days)
    ELSE current_date

add_working_days(start_date, working_days) ==
    AddWorkingDaysLoop(start_date, 0, working_days)

\* an initialisation that keeps the dates of the schedule held before the call
InitialScheduleKeepingDates(acts) ==
    [id \in {acts[i].id : i \in DOMAIN acts} |->
        LET a == acts[CHOOSE i \in DOMAIN acts : acts[i].id = id]
        IN IF id \in DOMAIN schedule
           THEN [schedule[id] EXCEPT !.duration_days = a.duration_days]
           ELSE [start |-> None, end |-> None, duration_days |-> a.duration_days]]

\* the schedule a call starts from: every activity unscheduled
InitialSchedule(acts) ==
    [id \in {acts[i].id : i \in DOMAIN acts} |->
        LET a == acts[CHOOSE i \in DOMAIN acts : acts[i].id = id]
        IN [start |-> None, end |-> None, duration_days |-> a.duration_days]]

\* for pred_id in activity.predecessors: ... ; raised is the KeyError of
\* schedule[pred_id] for an id that is no key of the schedule
RECURSIVE PredecessorScan(_, _, _, _)
PredecessorScan(preds, k, sched, latest) ==
    IF k > Len(preds)
    THEN [complete |-> TRUE, latest |-> latest, raised |-> FALSE]
    ELSE IF preds[k] \notin DOMAIN sched
    THEN [complete |-> FALSE, latest |-> latest, raised |-> TRUE]
    ELSE IF sched[preds[k]].end = None
    THEN [complete |-> FALSE, latest |-> latest, raised |-> FALSE]
    ELSE PredecessorScan(preds, k + 1, sched, Max(latest, sched[preds[k]].end))

\* a scheduler that starts every activity at the project start
StartDateIgnoringPredecessors(a, latest_predecessor_end) ==
    NextWorkingDay(PROJECT_START)

\* a scheduler that counts calendar days, weekends included
EndDateCalendarDays(start_date, a) == start_date + a.duration_days

\* start and end of an activity whose predecessors are all scheduled
StartDate(a, latest_predecessor_end) ==
    NextWorkingDay(IF Len(a.predecessors) > 0 THEN latest_predecessor_end
                   ELSE PROJECT_START)

EndDate(start_date, a) == add_working_days(start_date, a.duration_days)

\* one pass of `for activity in self.activities` over the list, from position i
RECURSIVE SchedulePass(_, _, _, _)
SchedulePass(acts, i, sched, progress_made) ==
    IF i > Len(acts)
    THEN [schedule |-> sched, progress_made |-> progress_made, raised |-> FALSE]
    ELSE LET a == acts[i]
         IN IF sched[a.id].start # None
            THEN SchedulePass(acts, i + 1, sched, progress_made)
            ELSE LET scan == PredecessorScan(a.predecessors, 1, sched, PROJECT_START)
                 IN IF scan.raised
                    THEN [schedule |-> sched, progress_made |-> progress_made,
                          raised |-> TRUE]
                    ELSE IF scan.complete
                    THEN LET start_date == StartDate(a, scan.latest)
                             end_date == EndDate(start_date, a)
                         IN SchedulePass(acts, i + 1,
                                [sched EXCEPT ![a.id].start = start_date,
                                              ![a.id].end = end_date],
                                TRUE)
                    ELSE SchedulePass(acts, i + 1, sched, progress_made)

\* a scheduler whose cap is one pass short of the activity count
MaxIterationsOneShort(acts) == Len(acts) - 1

\* a scheduler that gives up after half as many passes as there are activities
MaxIterationsHalved(acts) == Len(acts) \div 2

\* max_iterations = len(self.activities) * 2
MaxIterations(acts) == Len(acts) * 2

\* while iteration < max_iterations: iteration += 1; pass; break without progress
RECURSIVE ForwardPass(_, _, _)
ForwardPass(acts, sched, iteration) ==
    IF iteration < MaxIterations(acts)
    THEN LET p == SchedulePass(acts, 1, sched, FALSE)
         IN IF p.raised
            THEN [schedule |-> p.schedule, iteration |-> iteration + 1, raised |-> TRUE]
            ELSE IF ~p.progress_made
            THEN [schedule |-> p.schedule, iteration |-> iteration + 1, raised |-> FALSE]
            ELSE ForwardPass(acts, p.schedule, iteration + 1)
    ELSE [schedule |-> sched, iteration |-> iteration, raised |-> FALSE]

\* a scheduler that computes a schedule only when none is held
calculate_first_schedule_only(acts) ==
    IF DOMAIN schedule # {}
    THEN [schedule |-> schedule, iteration |-> 0, raised |-> FALSE]
    ELSE ForwardPass(acts, InitialSchedule(acts), 0)

\* the whole call: [schedule, iteration, raised]
calculate_activity_schedule(acts) == ForwardPass(acts, InitialSchedule(acts), 0)

----------------------------------------------------------------------------
(* Domain model: Resource queries (data_models.py) *)

SKILL_PETROLEUM == "Petroleum Technology"
SKILL_FINANCE == "Finance"
\* the skills, in the order a requirements dict lists them
SkillList == <<SKILL_PETROLEUM, SKILL_FINANCE>>
Skills == Range(SkillList)

\* Resource.is_available
is_available(r, week) ==
    IF week < r.start_week THEN FALSE
    ELSE IF week \in r.vacation_weeks THEN FALSE
    ELSE TRUE

\* a task limit that is off by one
can_take_task_inclusive(r, mt) == Len(r.assigned_tasks) <= mt

\* Resource.can_take_task
can_take_task(r, mt) == Len(r.assigned_tasks) < mt

\* a match that wants every required level reached
RECURSIVE MatchesSkillsAtLevel(_, _, _, _)
MatchesSkillsAtLevel(r, requirements, k, surplus) ==
    IF k > Len(SkillList)
    THEN [matches |-> TRUE, surplus |-> surplus]
    ELSE LET skill == SkillList[k]
             required_level == requirements[skill]
         IN IF required_level > 0
            THEN IF r.skills[skill] < required_level
                 THEN [matches |-> FALSE, surplus |-> 0]
                 ELSE MatchesSkillsAtLevel(r, requirements, k + 1,
                                           surplus + (r.skills[skill] - required_level))
            ELSE MatchesSkillsAtLevel(r, requirements, k + 1, surplus)

\* Resource.matches_skills: the loop over requirements.items(), from position k
RECURSIVE MatchesSkillsLoop(_, _, _, _)
MatchesSkillsLoop(r, requirements, k, surplus) ==
    IF k > Len(SkillList)
    THEN [matches |-> TRUE, surplus |-> surplus]
    ELSE LET skill == SkillList[k]
             required_level == requirements[skill]
         IN IF required_level > 0
            THEN IF r.skills[skill] = 0
                 THEN [matches |-> FALSE, surplus |-> 0]
                 ELSE MatchesSkillsLoop(r, requirements, k + 1,
                                        surplus + (r.skills[skill] - required_level))
            ELSE MatchesSkillsLoop(r, requirements, k + 1, surplus)

matches_skills(r, requirements) == MatchesSkillsLoop(r, requirements, 1, 0)

----------------------------------------------------------------------------
(* Allocator: ResourceAllocator._allocate_to_activity, _allocate_fallback,  *)
(* _adjust_duration                                                         *)

\* the week of an activity: 1 when it has no schedule entry or no start
ActivityWeek(sched, id) ==
    IF id \notin DOMAIN sched THEN 1
    ELSE IF sched[id].start = None THEN 1
    ELSE ((sched[id].start - PROJECT_START) \div 7) + 1

\* the resource may be considered for the activity: available that week and
\* below the task limit
Eligible(r, week, mt) == is_available(r, week) /\ can_take_task(r, mt)

\* the candidates of _allocate_to_activity, as pool positions in pool order
RECURSIVE CandidatesFrom(_, _, _, _, _)
CandidatesFrom(res, i, week, mt, requirements) ==
    IF i > Len(res) THEN <<>>
    ELSE IF Eligible(res[i], week, mt) /\ matches_skills(res[i], requirements).matches
         THEN <<i>> \o CandidatesFrom(res, i + 1, week, mt, requirements)
         ELSE CandidatesFrom(res, i + 1, week, mt, requirements)

\* a sort key that puts the hourly cost first
KeyLessCostFirst(res, requirements, i, j) ==
    LET si == matches_skills(res[i], requirements).surplus
        sj == matches_skills(res[j], requirements).surplus
    IN \/ res[i].cost_per_hour < res[j].cost_per_hour
       \/ (res[i].cost_per_hour = res[j].cost_per_hour /\ -si < -sj)

\* key=lambda x: (-x['surplus'], x['cost']): i sorts strictly before j
KeyLess(res, requirements, i, j) ==
    LET si == matches_skills(res[i], requirements).surplus
        sj == matches_skills(res[j], requirements).surplus
    IN \/ -si < -sj
       \/ (si = sj /\ res[i].cost_per_hour < res[j].cost_per_hour)

\* candidates.sort(key=...): list.sort is stable, so equal keys keep pool order
RECURSIVE SortCandidates(_, _, _)
SortCandidates(res, requirements, cands) ==
    IF cands = <<>> THEN <<>>
    ELSE LET k == CHOOSE k \in DOMAIN cands :
                    /\ \A j \in DOMAIN cands : ~KeyLess(res, requirements, cands[j], cands[k])
                    /\ \A j \in 1..(k - 1) : KeyLess(res, requirements, cands[k], cands[j])
             rest == [j \in 1..(Len(cands) - 1) |-> IF j < k THEN cands[j] ELSE cands[j + 1]]
         IN <<cands[k]>> \o SortCandidates(res, requirements, rest)

\* the activity is appended to the task list of every resource of the pool
AssignTasksToPool(res, allocated, id) ==
    [i \in DOMAIN res |-> [res[i] EXCEPT !.assigned_tasks = Append(@, id)]]

\* resource.assigned_tasks.append(activity.id) for every resource of `allocated`
AssignTasks(res, allocated, id) ==
    [i \in DOMAIN res |->
        IF i \in Range(allocated)
        THEN [res[i] EXCEPT !.assigned_tasks = Append(@, id)]
        ELSE res[i]]

\* _allocate_to_activity: [allocated, resources]
allocate_to_activity(a, res, sched, mt) ==
    LET week == ActivityWeek(sched, a.id)
        candidates == SortCandidates(res, a.skill_requirements,
                          CandidatesFrom(res, 1, week, mt, a.skill_requirements))
        allocated == SubSeq(candidates, 1, Min(a.num_people, Len(candidates)))
    IN [allocated |-> allocated, resources |-> AssignTasks(res, allocated, a.id)]

\* a fallback that takes every available resource below the limit
RECURSIVE FallbackEveryEligible(_, _, _, _, _, _)
FallbackEveryEligible(res, i, week, mt, num_people, allocated) ==
    IF i > Len(res) THEN allocated
    ELSE IF Eligible(res[i], week, mt)
         THEN FallbackEveryEligible(res, i + 1, week, mt, num_people, Append(allocated, i))
         ELSE FallbackEveryEligible(res, i + 1, week, mt, num_people, allocated)

\* the loop of _allocate_fallback over the pool, from position i
RECURSIVE FallbackFrom(_, _, _, _, _, _)
FallbackFrom(res, i, week, mt, num_people, allocated) ==
    IF i > Len(res) THEN allocated
    ELSE IF Len(allocated) >= num_people THEN allocated
    ELSE IF Eligible(res[i], week, mt)
         THEN FallbackFrom(res, i + 1, week, mt, num_people, Append(allocated, i))
         ELSE FallbackFrom(res, i + 1, week, mt, num_people, allocated)

\* _allocate_fallback: [allocated, resources]
allocate_fallback(a, res, sched, mt) ==
    LET week == ActivityWeek(sched, a.id)
        allocated == FallbackFrom(res, 1, week, mt, a.num_people, <<>>)
    IN [allocated |-> allocated, resources |-> AssignTasks(res, allocated, a.id)]

\* a surplus in which a level below the requirement counts as negative
RECURSIVE ResourceSurplusSigned(_, _, _)
ResourceSurplusSigned(skills, requirements, k) ==
    IF k > Len(SkillList) THEN 0
    ELSE LET required_level == requirements[SkillList[k]]
         IN (IF required_level > 0
             THEN skills[SkillList[k]] - required_level
             ELSE 0) + ResourceSurplusSigned(skills, requirements, k + 1)

\* total_surplus of _adjust_duration, for one resource: skills from position k
RECURSIVE ResourceSurplus(_, _, _)
ResourceSurplus(skills, requirements, k) ==
    IF k > Len(SkillList) THEN 0
    ELSE LET required_level == requirements[SkillList[k]]
         IN (IF required_level > 0
             THEN Max(0, skills[SkillList[k]] - required_level)
             ELSE 0) + ResourceSurplus(skills, requirements, k + 1)

\* total_surplus over the allocated resources (a sequence of skill maps)
RECURSIVE TotalSurplus(_, _)
TotalSurplus(allocated_skills, requirements) ==
    IF allocated_skills = <<>> THEN 0
    ELSE ResourceSurplus(Head(allocated_skills), requirements, 1)
         + TotalSurplus(Tail(allocated_skills), requirements)

\* hours that grow with the surplus instead of shrinking
AdjustedHoursTwiceAdded(base_hours, adjustment_hours) ==
    2 * (base_hours + adjustment_hours)

\* adjusted_hours = max(base_hours * 0.5, base_hours - adjustment_hours), doubled
\* so that the half stays an integer
AdjustedHoursTwice(base_hours, adjustment_hours) ==
    Max(base_hours, 2 * (base_hours - adjustment_hours))

\* a conversion to days that truncates instead of rounding
AdjustedDaysTruncated(adjusted_hours_twice, num_people) ==
    adjusted_hours_twice \div (2 * num_people * HOURS_PER_DAY)

\* int(adjusted_hours / (num_people * HOURS_PER_DAY) + 0.5)
AdjustedDays(adjusted_hours_twice, num_people) ==
    (adjusted_hours_twice + num_people * HOURS_PER_DAY)
        \div (2 * num_people * HOURS_PER_DAY)

\* _adjust_duration(activity, allocated_resources, factor)
adjust_duration(duration_days, num_people, requirements, allocated_skills, f) ==
    LET total_surplus == TotalSurplus(allocated_skills, requirements)
        base_hours == num_people * duration_days * HOURS_PER_DAY
        adjustment_hours == f * total_surplus
    IN Max(1, AdjustedDays(AdjustedHoursTwice(base_hours, adjustment_hours), num_people))

----------------------------------------------------------------------------
(* Allocator results: ResourceAllocator._calculate_results.  Hours and costs *)
(* are kept multiplied by HoursScale, the common denominator of the code's   *)
(* divisions: by len(allocated), by 7 (the 5/7 of a calendar day) and by 100 *)
(* (availability_pct is held as a percentage).                               *)

RECURSIVE Factorial(_)
Factorial(n) == IF n <= 1 THEN 1 ELSE n * Factorial(n - 1)

HoursScale(res) == Factorial(Len(res)) * 7 * 100

\* allocation_map.get(activity.id, [])
Allocated(amap, id) == IF id \in DOMAIN amap THEN amap[id] ELSE <<>>

\* hours shared between the people the activity asked for
HoursPerRequiredPerson(a, allocated, res) ==
    (a.duration_days * HOURS_PER_DAY * HoursScale(res)) \div a.num_people

\* hours_per_resource = (activity.duration_days * HOURS_PER_DAY) / len(allocated)
HoursPerResource(a, allocated, res) ==
    (a.duration_days * HOURS_PER_DAY * HoursScale(res)) \div Len(allocated)

\* activity_cost = sum(r.cost_per_hour * hours_per_resource for r in allocated)
ActivityCost(a, allocated, res) ==
    IF allocated = <<>> THEN 0
    ELSE SeqSum([k \in DOMAIN allocated |->
                    res[allocated[k]].cost_per_hour * HoursPerResource(a, allocated, res)])

\* the schedule entries with an end date
ScheduledEnds(sched) == {sched[id].end : id \in {i \in DOMAIN sched : sched[i].end # None}}

\* max(s['end'] for s in self.schedule.values() if s['end'])
CompletionDate(sched) ==
    CHOOSE e \in ScheduledEnds(sched) : \A x \in ScheduledEnds(sched) : x <= e

\* project_working_days * HOURS_PER_DAY * availability_pct, with
\* project_working_days = project_days * (5/7)
CoreTeamHours(r, sched, res) ==
    (CompletionDate(sched) - PROJECT_START) * 5 * HOURS_PER_DAY * r.availability_pct
        * Factorial(Len(res))

\* hours a resource accumulates over the activities it is allocated to
TaskHours(i, acts, amap, res) ==
    SeqSum([k \in DOMAIN acts |->
              IF i \in Range(Allocated(amap, acts[k].id))
              THEN HoursPerResource(acts[k], Allocated(amap, acts[k].id), res)
              ELSE 0])

\* the pool after `Update resource totals` and `Add core team fixed costs`
ResourcesWithTotals(acts, amap, sched, res) ==
    [i \in DOMAIN res |->
        LET hours == TaskHours(i, acts, amap, res)
                     + (IF res[i].is_core_team THEN CoreTeamHours(res[i], sched, res) ELSE 0)
        IN [res[i] EXCEPT !.total_hours = @ + hours,
                          !.total_cost = @ + res[i].cost_per_hour * hours]]

\* the results dictionary
calculate_results(acts, amap, sched, res) ==
    LET activity_costs == [id \in {acts[k].id : k \in DOMAIN acts} |->
            LET a == acts[CHOOSE k \in DOMAIN acts : acts[k].id = id]
            IN ActivityCost(a, Allocated(amap, id), res)]
        core_team_cost == SeqSum([i \in DOMAIN res |->
            IF res[i].is_core_team
            THEN CoreTeamHours(res[i], sched, res) * res[i].cost_per_hour ELSE 0])
        after == ResourcesWithTotals(acts, amap, sched, res)
    IN [total_activities |-> Len(acts),
        estimated_cost |-> SeqSum([k \in DOMAIN acts |-> activity_costs[acts[k].id]])
                           + core_team_cost,
        core_team_cost |-> core_team_cost,
        activity_costs |-> activity_costs,
        completion_date |-> CompletionDate(sched),
        schedule |-> sched,
        allocation_map |-> amap,
        resource_utilization |->
            [i \in {j \in DOMAIN after : after[j].total_hours > 0} |->
                [hours |-> after[i].total_hours, cost |-> after[i].total_cost,
                 tasks |-> Len(after[i].assigned_tasks)]]]

----------------------------------------------------------------------------
(* The allocation run: ResourceAllocator.allocate_resources *)

\* sorted(self.activities, key=lambda a: a.id), as list positions; sorted() is
\* stable
RECURSIVE SortPositionsById(_, _)
SortPositionsById(acts, positions) ==
    IF positions = {} THEN <<>>
    ELSE LET p == CHOOSE p \in positions :
                    \A q \in positions :
                        \/ acts[p].id < acts[q].id
                        \/ (acts[p].id = acts[q].id /\ p <= q)
         IN <<p>> \o SortPositionsById(acts, positions \ {p})

SortedPositions(acts) == SortPositionsById(acts, DOMAIN acts)

\* the skill maps of the allocated resources, in allocation order
AllocatedSkills(res, allocated) == [k \in DOMAIN allocated |-> res[allocated[k]].skills]

\* Step 1: calculate_activity_schedule(), with the arguments of the call
AllocateResourcesStart ==
    /\ pc = "new"
    /\ \E mt \in 1..MaxTasks :
        /\ max_tasks' = mt
        /\ factor' = DEFAULT_FACTOR
    /\ LET r == calculate_activity_schedule(activities)
       IN /\ iterations' = r.iteration
          /\ IF r.raised
             THEN pc' = "raised" /\ UNCHANGED schedule
             ELSE pc' = "allocating" /\ schedule' = r.schedule
    /\ next_idx' = 1
    /\ scheduler_calls' = 1
    /\ UNCHANGED <<activities, resources, allocation_map, results, riskVars,
                   callerVars, adj>>

\* a loop that allocates the same activity again whenever its duration changed
AllocateActivityRetrying ==
    /\ pc = "allocating"
    /\ next_idx <= Len(activities)
    /\ LET pos == SortedPositions(activities)[next_idx]
           activity == activities[pos]
           try == allocate_to_activity(activity, resources, schedule, max_tasks)
       IN IF try.allocated # <<>>
          THEN LET adjusted_duration ==
                      adjust_duration(activity.duration_days, activity.num_people,
                                      activity.skill_requirements,
                                      AllocatedSkills(try.resources, try.allocated), factor)
                   acts2 == [activities EXCEPT ![pos].duration_days = adjusted_duration]
                   r == calculate_activity_schedule(acts2)
               IN /\ resources' = try.resources
                  /\ allocation_map' = (activity.id :> try.allocated) @@ allocation_map
                  /\ IF adjusted_duration # activity.duration_days
                     THEN /\ activities' = acts2
                          /\ iterations' = r.iteration
                          /\ scheduler_calls' = scheduler_calls + 1
                          /\ IF r.raised
                             THEN pc' = "raised" /\ UNCHANGED schedule
                             ELSE pc' = pc /\ schedule' = r.schedule
                     ELSE UNCHANGED <<activities, schedule, iterations,
                                      scheduler_calls, pc>>
          ELSE LET fb == allocate_fallback(activity, resources, schedule, max_tasks)
               IN /\ resources' = fb.resources
                  /\ allocation_map' = IF fb.allocated # <<>>
                                       THEN (activity.id :> fb.allocated) @@ allocation_map
                                       ELSE allocation_map
                  /\ UNCHANGED <<activities, schedule, iterations,
                                 scheduler_calls, pc>>
    /\ next_idx' = IF activities' # activities THEN next_idx ELSE next_idx + 1
    /\ UNCHANGED <<max_tasks, factor, results, riskVars, callerVars, adj>>

\* Step 2, one iteration of the loop over the activities in id order
AllocateActivity ==
    /\ pc = "allocating"
    /\ next_idx <= Len(activities)
    /\ LET pos == SortedPositions(activities)[next_idx]
           activity == activities[pos]
           try == allocate_to_activity(activity, resources, schedule, max_tasks)
       IN IF try.allocated # <<>>
          THEN LET adjusted_duration ==
                      adjust_duration(activity.duration_days, activity.num_people,
                                      activity.skill_requirements,
                                      AllocatedSkills(try.resources, try.allocated), factor)
                   acts2 == [activities EXCEPT ![pos].duration_days = adjusted_duration]
                   r == calculate_activity_schedule(acts2)
               IN /\ resources' = try.resources
                  /\ allocation_map' = (activity.id :> try.allocated) @@ allocation_map
                  /\ IF adjusted_duration # activity.duration_days
                     THEN /\ activities' = acts2
                          /\ iterations' = r.iteration
                          /\ scheduler_calls' = scheduler_calls + 1
                          /\ IF r.raised
                             THEN pc' = "raised" /\ UNCHANGED schedule
                             ELSE pc' = pc /\ schedule' = r.schedule
                     ELSE UNCHANGED <<activities, schedule, iterations,
                                      scheduler_calls, pc>>
          ELSE LET fb == allocate_fallback(activity, resources, schedule, max_tasks)
               IN /\ resources' = fb.resources
                  /\ allocation_map' = IF fb.allocated # <<>>
                                       THEN (activity.id :> fb.allocated) @@ allocation_map
                                       ELSE allocation_map
                  /\ UNCHANGED <<activities, schedule, iterations,
                                 scheduler_calls, pc>>
    /\ next_idx' = next_idx + 1
    /\ UNCHANGED <<max_tasks, factor, results, riskVars, callerVars, adj>>

\* Step 3: _calculate_results(); max() of no end date raises ValueError
CalculateResults ==
    /\ pc = "allocating"
    /\ next_idx > Len(activities)
    /\ IF ScheduledEnds(schedule) = {}
       THEN pc' = "raised" /\ UNCHANGED <<resources, results>>
       ELSE /\ pc' = "done"
            /\ resources' = ResourcesWithTotals(activities, allocation_map, schedule, resources)
            /\ results' = calculate_results(activities, allocation_map, schedule, resources)
    /\ UNCHANGED <<activities, schedule, allocation_map, max_tasks, factor, next_idx,
                   iterations, scheduler_calls, riskVars, callerVars, adj>>

----------------------------------------------------------------------------
(* Inputs of the allocation run *)

\* ids of the activities of an allocation run
AllocIds == {1, 2, 3}

\* the graph has no cycle: peeling activities without remaining predecessors
\* empties it
RECURSIVE Peel(_, _)
Peel(preds, S) ==
    IF \E i \in S : preds[i] \cap S = {}
    THEN Peel(preds, S \ {i \in S : preds[i] \cap S = {}})
    ELSE S

IsAcyclic(preds, ids) == Peel(preds, ids) = {}

DurationChoices == {2, MaxDur}

\* the headcount each activity requires: one or two people
NumPeople(id) == 1 + (id % 2)

\* what each activity requires: Petroleum alone, Petroleum and Finance, or a
\* higher level of Petroleum
Requirement(id) ==
    [s \in Skills |->
        IF s = SKILL_PETROLEUM THEN (IF id % 3 = 0 THEN 2 ELSE 1)
        ELSE (IF id % 3 = 2 THEN 1 ELSE 0)]

SkillChoices ==
    {[s \in Skills |-> IF s = SKILL_PETROLEUM THEN p ELSE f] :
        p \in {0, MaxLevel}, f \in {0, MaxLevel}}

\* the first resource is there from week 1 and may be away in week 2; the second
\* may join in week 2
AvailabilityChoices(i) ==
    IF i = 1
    THEN {[start_week |-> 1, vacation_weeks |-> {}],
          [start_week |-> 1, vacation_weeks |-> {2}]}
    ELSE {[start_week |-> 1, vacation_weeks |-> {}],
          [start_week |-> 2, vacation_weeks |-> {}]}

\* a Resource as its constructor leaves it
NewResource(i, cost, avail, skills) ==
    [name |-> i, cost_per_hour |-> cost, availability_pct |-> 100 - 10 * (i - 1),
     start_week |-> avail.start_week, vacation_weeks |-> avail.vacation_weeks,
     skills |-> skills, is_core_team |-> (i = 1),
     assigned_tasks |-> <<>>, total_hours |-> 0, total_cost |-> 0]

\* an Activity as its constructor leaves it
NewActivity(id, duration_days, num_people, predecessors, skill_requirements) ==
    [id |-> id, duration_days |-> duration_days, num_people |-> num_people,
     predecessors |-> predecessors, skill_requirements |-> skill_requirements]

NoRisks ==
    /\ risks = <<>>
    /\ mitigation_selections = <<>>
    /\ budget_constraint = None
    /\ best_strategy = NoneDict

NoResources ==
    /\ resources = <<>>
    /\ allocation_map = <<>>
    /\ max_tasks = None
    /\ factor = None
    /\ next_idx = 0
    /\ results = None

\* ResourceAllocator.__init__ and the state before any call: the allocator's
\* lists are deep copies, equal to the lists it was given
FreshAllocator ==
    /\ schedule = <<>>
    /\ allocation_map = <<>>
    /\ max_tasks = None
    /\ factor = None
    /\ next_idx = 0
    /\ iterations = 0
    /\ scheduler_calls = 0
    /\ given_activities = activities
    /\ given_resources = resources
    /\ results = None
    /\ pc = "new"

Init ==
    /\ \E preds \in [AllocIds -> SUBSET AllocIds], d \in DurationChoices :
        /\ IsAcyclic(preds, AllocIds)
        /\ activities = [i \in 1..Cardinality(AllocIds) |->
                            NewActivity(i, d, NumPeople(i), Ascending(preds[i]),
                                        Requirement(i))]
    /\ \E c \in {1, 2}, sk \in [1..2 -> SkillChoices],
          av1 \in AvailabilityChoices(1), av2 \in AvailabilityChoices(2) :
        resources = <<NewResource(1, c, av1, sk[1]), NewResource(2, 1, av2, sk[2])>>
    /\ FreshAllocator
    /\ NoRisks
    /\ adj = None

Next ==
    \/ AllocateResourcesStart
    \/ AllocateActivity
    \/ CalculateResults

Spec == Init /\ [][Next]_vars

----------------------------------------------------------------------------
(* The scheduler on its own: calculate_activity_schedule called on an        *)
(* allocator whose activities may name each other in cycles or name an id    *)
(* that no activity has.                                                     *)

\* an id no activity has
MissingId == NumActs + 1

\* the predecessor lists tried: at most two ids, ascending, the missing id among them
PredecessorChoices ==
    {Ascending(S) : S \in {T \in SUBSET (1..MissingId) : Cardinality(T) <= 2}}

\* one call of calculate_activity_schedule; self.schedule is assigned on the
\* last line only, so a call that raises leaves it as it was
CalculateActivitySchedule ==
    /\ pc \in {"new", "scheduled"}
    /\ LET r == calculate_activity_schedule(activities)
       IN /\ iterations' = r.iteration
          /\ IF r.raised
             THEN pc' = "raised" /\ UNCHANGED schedule
             ELSE pc' = "scheduled" /\ schedule' = r.schedule
    /\ UNCHANGED <<activities, resources, allocation_map, max_tasks, factor, next_idx,
                   results, scheduler_calls, riskVars, callerVars, adj>>

\* the durations tried: two staggered families reaching past a weekend, and
\* short ones that keep a chain of activities inside one week
SchedDurationChoices ==
    {[i \in 1..NumActs |-> ((i + k) % MaxDur) + 1] : k \in {0, MaxDur - 1}}
    \cup {[i \in 1..NumActs |-> IF i = 1 THEN 2 ELSE 1]}

InitSched ==
    /\ \E preds \in [1..NumActs -> PredecessorChoices], d \in SchedDurationChoices :
        activities = [i \in 1..NumActs |->
                        NewActivity(i, d[i], 1, preds[i], Requirement(i))]
    /\ resources = <<>>
    /\ FreshAllocator
    /\ NoRisks
    /\ adj = None

NextSched == CalculateActivitySchedule

SpecSched == InitSched /\ [][NextSched]_vars

----------------------------------------------------------------------------
(* Properties of the allocation run *)

ActivityIds == {activities[k].id : k \in DOMAIN activities}
ActivityById(id) == activities[CHOOSE k \in DOMAIN activities : activities[k].id = id]

\* a scheduler call has stored its schedule
ScheduleHeld == DOMAIN schedule # {}

\* the working days (Monday to Friday) in the days after `start` up to `end`
WorkingDaysBetween(start, end) ==
    Cardinality({d \in (start + 1)..end : Weekday(d) < 5})

\* an activity's duration differs from every duration the run started with
DurationAdjusted(a) == a.duration_days \notin DurationChoices

\* C1: in the schedule held after any scheduler call, and so when
\* allocate_resources returns, every scheduled activity starts on or after the
\* end of each of its predecessors, and an activity without predecessors
\* starts at the project start date.
C1_StartAfterPredecessors ==
    ScheduleHeld =>
        \A id \in ActivityIds :
            schedule[id].start # None =>
                LET a == ActivityById(id)
                IN /\ \A p \in Range(a.predecessors) :
                        /\ schedule[p].end # None
                        /\ schedule[id].start >= schedule[p].end
                   /\ (a.predecessors = <<>> => schedule[id].start = PROJECT_START)

\* the run has returned, a duration was adjusted on the way, and an activity
\* with two predecessors that end on different days is scheduled
C1_Witness ==
    /\ pc = "done"
    /\ \E id \in ActivityIds : DurationAdjusted(ActivityById(id))
    /\ \E id \in ActivityIds :
        LET a == ActivityById(id)
        IN /\ Len(a.predecessors) = 2
           /\ schedule[id].start # None
           /\ schedule[a.predecessors[1]].end # schedule[a.predecessors[2]].end

\* C2: for every scheduled activity the end is on or after the start, and the
\* working days walked from start to end are the activity's current
\* duration_days, in the provisional schedule and in the final one.
C2_WorkingDaySpan ==
    ScheduleHeld =>
        \A id \in ActivityIds :
            schedule[id].start # None =>
                /\ schedule[id].end >= schedule[id].start
                /\ WorkingDaysBetween(schedule[id].start, schedule[id].end)
                       = ActivityById(id).duration_days

\* the run has returned with an activity whose duration was adjusted and whose
\* span crosses a weekend
C2_Witness ==
    /\ pc = "done"
    /\ \E id \in ActivityIds :
        /\ DurationAdjusted(ActivityById(id))
        /\ schedule[id].start # None
        /\ schedule[id].end - schedule[id].start > ActivityById(id).duration_days

\* C3: when allocate_resources has returned, every resource in an activity's
\* allocation-map entry is available in the activity's scheduled week, for any
\* acyclic dependency graph.
C3_AvailableInScheduledWeek ==
    pc = "done" =>
        \A id \in DOMAIN allocation_map :
            \A i \in Range(allocation_map[id]) :
                is_available(resources[i], ActivityWeek(schedule, id))

\* every predecessor id is smaller than the id of the activity naming it
IdsFollowDependencies ==
    \A k \in DOMAIN activities :
        \A p \in Range(activities[k].predecessors) : p < activities[k].id

\* the same statement for graphs whose ids follow the dependency order
AvailableInScheduledWeekWhenIdsFollowDependencies ==
    IdsFollowDependencies => C3_AvailableInScheduledWeek

\* no resource holds more tasks than the limit of the run
WithinTaskLimit ==
    pc \in {"allocating", "done"} =>
        \A i \in DOMAIN resources : Len(resources[i].assigned_tasks) <= max_tasks

\* a step that gives a resource a task gives it one task, and only when it
\* held fewer tasks than the limit
GainsTaskBelowLimit ==
    \A i \in DOMAIN resources :
        resources'[i].assigned_tasks # resources[i].assigned_tasks =>
            /\ Len(resources[i].assigned_tasks) < max_tasks
            /\ Len(resources'[i].assigned_tasks) = Len(resources[i].assigned_tasks) + 1

\* C4: at every point of an allocation run no resource's task list is longer
\* than max_tasks_per_resource, and a resource gains an activity id, through
\* the skill-matched or the fallback path, only while strictly below the limit.
C4_TaskLimit == [](WithinTaskLimit) /\ [][GainsTaskBelowLimit]_vars

\* the run has returned with a resource at the limit that was left out of an
\* activity still short of people, in a week in which it is available
C4_Witness ==
    /\ pc = "done"
    /\ \E i \in DOMAIN resources, id \in ActivityIds :
        /\ Len(resources[i].assigned_tasks) = max_tasks
        /\ id \notin Range(resources[i].assigned_tasks)
        /\ is_available(resources[i], ActivityWeek(schedule, id))
        /\ Len(Allocated(allocation_map, id)) < ActivityById(id).num_people

----------------------------------------------------------------------------
(* _adjust_duration on its own: any activity, any resources, any factor *)

FactorChoices == {0, 1, DEFAULT_FACTOR, HOURS_PER_DAY}

\* skill maps of the resources handed to _adjust_duration
AdjustSkillChoices ==
    {[s \in Skills |-> IF s = SKILL_PETROLEUM THEN p ELSE f] :
        p \in 0..MaxLevel, f \in {0, MaxLevel}}

AdjustInputs ==
    [duration_days : 1..MaxDur,
     num_people : 1..MaxHeadcount,
     skill_requirements : {Requirement(id) : id \in 1..3},
     allocated_skills : {<<a>> : a \in AdjustSkillChoices}
                        \cup {<<a, b>> : a \in AdjustSkillChoices, b \in AdjustSkillChoices},
     factor : FactorChoices,
     result : {None}]

\* one call of _adjust_duration on the inputs held in adj
AdjustDuration ==
    /\ pc = "adjust"
    /\ adj.result = None
    /\ adj' = [adj EXCEPT !.result =
                  adjust_duration(adj.duration_days, adj.num_people, adj.skill_requirements,
                                  adj.allocated_skills, adj.factor)]
    /\ pc' = "adjusted"
    /\ UNCHANGED <<allocVars, riskVars, callerVars>>

InitAdjust ==
    /\ adj \in AdjustInputs
    /\ activities = <<>>
    /\ resources = <<>>
    /\ schedule = <<>>
    /\ allocation_map = <<>>
    /\ max_tasks = None
    /\ factor = None
    /\ next_idx = 0
    /\ iterations = 0
    /\ scheduler_calls = 0
    /\ given_activities = activities
    /\ given_resources = resources
    /\ results = None
    /\ pc = "adjust"
    /\ NoRisks

NextAdjust == AdjustDuration

SpecAdjust == InitAdjust /\ [][NextAdjust]_vars

\* C5: for num_people >= 1, a duration d >= 1, any allocated resources and any
\* non-negative factor, the duration _adjust_duration returns is at least 1
\* and at least half of d, rounding included.
C5_AdjustedDurationFloor ==
    (pc = "adjusted") =>
        /\ adj.result >= 1
        /\ 2 * adj.result >= adj.duration_days

\* a call whose surplus pushes an odd duration down to the 50% floor, where the
\* rounding decides the result
C5_Witness ==
    /\ pc = "adjusted"
    /\ adj.duration_days > 1
    /\ adj.duration_days % 2 = 1
    /\ adj.factor * TotalSurplus(adj.allocated_skills, adj.skill_requirements)
           > adj.num_people * adj.duration_days * HOURS_PER_DAY
    /\ 2 * adj.result = adj.duration_days + 1

----------------------------------------------------------------------------
(* Risk optimizer: RiskAnalyzer.optimize_mitigation_strategy.  A probability *)
(* is a whole percentage, so expected reductions and net benefits are held   *)
(* multiplied by 100.                                                        *)

\* itertools.product(*menus): every combination, the last menu varying fastest
RECURSIVE PrependEach(_, _)
PrependEach(options, rest) ==
    IF options = <<>> THEN <<>>
    ELSE [k \in DOMAIN rest |-> <<Head(options)>> \o rest[k]]
         \o PrependEach(Tail(options), rest)

RECURSIVE Product(_)
Product(menus) ==
    IF menus = <<>> THEN << <<>> >>
    ELSE PrependEach(Head(menus), Product(Tail(menus)))

\* total_cost = sum(opt['cost'] for opt in combination)
TotalCost(combination) ==
    SeqSum([k \in DOMAIN combination |-> combination[k].cost])

\* total_cost_reduction: sum of probability * (cost_reduction + time_reduction * 1000)
TotalCostReduction(rs, combination) ==
    SeqSum([k \in DOMAIN combination |->
              rs[k].probability * (combination[k].cost_reduction
                                   + combination[k].time_reduction * TIME_VALUE)])

\* total_time_reduction: sum of probability * time_reduction
TotalTimeReduction(rs, combination) ==
    SeqSum([k \in DOMAIN combination |-> rs[k].probability * combination[k].time_reduction])

\* net_benefit = total_cost_reduction - total_cost
NetBenefit(rs, combination) ==
    TotalCostReduction(rs, combination) - 100 * TotalCost(combination)

\* `if budget_constraint and total_cost > budget_constraint: continue`; a
\* budget of None or of 0 is falsy
BudgetSkips(budget, total_cost) ==
    /\ budget # None
    /\ budget # 0
    /\ total_cost > budget

\* the strategy dictionary built for a combination
Strategy(rs, combination) ==
    [mitigations |-> combination,
     total_cost |-> TotalCost(combination),
     expected_reduction |-> TotalCostReduction(rs, combination),
     expected_time_reduction |-> TotalTimeReduction(rs, combination),
     net_benefit |-> NetBenefit(rs, combination)]

\* net_benefit > best_net_benefit, which starts at -inf with no best strategy
Improves(net_benefit, best) == best = NoneDict \/ net_benefit > best.net_benefit

\* the loop over the combinations, from position k
RECURSIVE SearchFrom(_, _, _, _, _)
SearchFrom(rs, combinations, k, budget, best) ==
    IF k > Len(combinations) THEN best
    ELSE LET combination == combinations[k]
         IN IF BudgetSkips(budget, TotalCost(combination))
            THEN SearchFrom(rs, combinations, k + 1, budget, best)
            ELSE IF Improves(NetBenefit(rs, combination), best)
            THEN SearchFrom(rs, combinations, k + 1, budget, Strategy(rs, combination))
            ELSE SearchFrom(rs, combinations, k + 1, budget, best)

\* the return value of optimize_mitigation_strategy: a strategy or None
optimize_mitigation_strategy(rs, budget) ==
    SearchFrom(rs, Product([k \in DOMAIN rs |-> rs[k].mitigation_options]), 1, budget, NoneDict)

\* a store that gives every risk the first option of its menu
StoreFirstOption(rs, best) ==
    IF best # NoneDict
    THEN [k \in DOMAIN rs |->
            [rs[k] EXCEPT !.selected_mitigation = rs[k].mitigation_options[1]]]
    ELSE rs

\* `Store selections`: risk.selected_mitigation = mitigation
StoreSelected(rs, best) ==
    IF best # NoneDict
    THEN [k \in DOMAIN rs |-> [rs[k] EXCEPT !.selected_mitigation = best.mitigations[k]]]
    ELSE rs

\* `Store selections`: self.mitigation_selections[risk.id] = mitigation
RECURSIVE StoreSelectionsFrom(_, _, _, _)
StoreSelectionsFrom(rs, best, k, selections) ==
    IF k > Len(rs) THEN selections
    ELSE StoreSelectionsFrom(rs, best, k + 1,
             (rs[k].id :> best.mitigations[k])
             @@ [id \in DOMAIN selections \ {rs[k].id} |-> selections[id]])

StoreSelections(rs, best, selections) ==
    IF best # NoneDict THEN StoreSelectionsFrom(rs, best, 1, selections) ELSE selections

\* a Risk as its constructor leaves it
NewRisk(id, probability, mitigation_options) ==
    [id |-> id, probability |-> probability, cost_impact |-> 8000,
     time_impact_days |-> 2, mitigation_options |-> mitigation_options,
     selected_mitigation |-> NoneDict]

\* mitigation options after those of data_models.RISKS
OptionPool ==
    {[id |-> "E", cost |-> 0, cost_reduction |-> 0, time_reduction |-> 0],
     [id |-> "B", cost |-> 500, cost_reduction |-> 500, time_reduction |-> 0],
     [id |-> "D", cost |-> 2000, cost_reduction |-> 900, time_reduction |-> 0],
     [id |-> "A", cost |-> 800, cost_reduction |-> 2000, time_reduction |-> 2]}

\* the menus tried: up to MaxOptions different options, in any order
RECURSIVE MenusOfLength(_)
MenusOfLength(n) ==
    IF n = 0 THEN {<<>>}
    ELSE {Append(m, o) : m \in MenusOfLength(n - 1), o \in OptionPool}

MenuChoices ==
    {m \in UNION {MenusOfLength(n) : n \in 0..MaxOptions} :
        \A j, k \in DOMAIN m : j # k => m[j] # m[k]}

ProbabilityChoices == {5, 100}
BudgetChoices == {None, 0, 500, 2000}

\* one call of optimize_mitigation_strategy(budget)
OptimizeMitigationStrategy ==
    /\ pc \in {"analyzer", "optimized"}
    /\ \E budget \in BudgetChoices :
        LET best == optimize_mitigation_strategy(risks, budget)
        IN /\ budget_constraint' = budget
           /\ best_strategy' = best
           /\ risks' = StoreSelected(risks, best)
           /\ mitigation_selections' = StoreSelections(risks, best, mitigation_selections)
    /\ pc' = "optimized"
    /\ UNCHANGED <<allocVars, callerVars, adj>>

InitRisk ==
    /\ \E menus \in [1..2 -> MenuChoices], p \in [1..2 -> ProbabilityChoices] :
        risks = [k \in 1..2 |-> NewRisk(k, p[k], menus[k])]
    /\ mitigation_selections = <<>>
    /\ budget_constraint = None
    /\ best_strategy = NoneDict
    /\ activities = <<>>
    /\ resources = <<>>
    /\ schedule = <<>>
    /\ allocation_map = <<>>
    /\ max_tasks = None
    /\ factor = None
    /\ next_idx = 0
    /\ iterations = 0
    /\ scheduler_calls = 0
    /\ given_activities = activities
    /\ given_resources = resources
    /\ results = None
    /\ adj = None
    /\ pc = "analyzer"

NextRisk == OptimizeMitigationStrategy

SpecRisk == InitRisk /\ [][NextRisk]_vars

----------------------------------------------------------------------------
(* Properties of the optimizer.  The combinations are recomputed here as the *)
(* choice functions over the menus, independently of Product and SearchFrom. *)

AllCombinations ==
    {c \in [DOMAIN risks -> OptionPool] :
        \A k \in DOMAIN risks :
            \E j \in DOMAIN risks[k].mitigation_options :
                c[k] = risks[k].mitigation_options[j]}

\* the combinations a budget allows; a budget of None allows them all
WithinBudget(budget) ==
    {c \in AllCombinations : budget = None \/ TotalCost(c) <= budget}

\* the net benefit of one option of one risk
OptionNetBenefit(r, o) ==
    r.probability * (o.cost_reduction + o.time_reduction * TIME_VALUE) - 100 * o.cost

IsZeroOption(o) == o.cost = 0 /\ o.cost_reduction = 0 /\ o.time_reduction = 0

\* the zero option of risk k is chosen when every other option of the risk
\* has a negative net benefit
ZeroOptionWins(best) ==
    \A k \in DOMAIN risks :
        LET menu == risks[k].mitigation_options
        IN (/\ \E j \in DOMAIN menu : IsZeroOption(menu[j])
            /\ \A j \in DOMAIN menu :
                 ~IsZeroOption(menu[j]) => OptionNetBenefit(risks[k], menu[j]) < 0)
           => IsZeroOption(best.mitigations[k])

\* the strategy returned for the budget is an exact maximum over the
\* combinations the budget allows
ExactFor(budget, best) ==
    /\ WithinBudget(budget) # {} => best # NoneDict
    /\ best # NoneDict =>
        /\ best.mitigations \in WithinBudget(budget)
        /\ \A c \in WithinBudget(budget) :
             NetBenefit(risks, best.mitigations) >= NetBenefit(risks, c)
        /\ best.total_cost = TotalCost(best.mitigations)
        /\ best.net_benefit = NetBenefit(risks, best.mitigations)
        /\ ZeroOptionWins(best)

\* C6: the optimizer returns a combination the budget allows whose net benefit
\* is at least that of every other combination the budget allows, with
\* total_cost and net_benefit equal to the recomputed values; a zero option
\* wins for a risk whose other options all have a negative net benefit.
C6_ExactSearch ==
    pc = "optimized" => ExactFor(budget_constraint, best_strategy)

\* the same, for every budget but 0: this holds
ExactSearchUnlessBudgetZero ==
    (pc = "optimized" /\ budget_constraint # 0)
        => ExactFor(budget_constraint, best_strategy)

\* C7: whenever a budget B >= 0 is supplied, B = 0 included, the returned
\* strategy, if any, has total_cost <= B.
C7_BudgetRespected ==
    (pc = "optimized" /\ budget_constraint # None /\ best_strategy # NoneDict)
        => best_strategy.total_cost <= budget_constraint

\* the same, for a budget above 0: this holds
PositiveBudgetRespected ==
    (pc = "optimized" /\ budget_constraint # None /\ budget_constraint # 0
        /\ best_strategy # NoneDict)
        => best_strategy.total_cost <= budget_constraint

\* a call that leaves no strategy and touches no selection
ReturnsNoneUntouched ==
    /\ best_strategy' = NoneDict
    /\ risks' = risks
    /\ mitigation_selections' = mitigation_selections

\* C8: a call for which no combination is feasible (the budget excludes them
\* all, or a risk has an empty menu) returns None and leaves every
\* selected_mitigation and mitigation_selections as they were.
C8_NoFeasibleCombination ==
    [][(pc' = "optimized" /\ WithinBudget(budget_constraint') = {})
         => ReturnsNoneUntouched]_vars

\* the same, for every budget but 0: this holds
NoFeasibleCombinationUnlessBudgetZero ==
    [][(pc' = "optimized" /\ budget_constraint' # 0 /\ WithinBudget(budget_constraint') = {})
         => ReturnsNoneUntouched]_vars

----------------------------------------------------------------------------
(* Properties of the scheduler on its own *)

\* the ids an activity names as predecessors
PredecessorIds(id) ==
    LET a == ActivityById(id) IN {a.predecessors[k] : k \in DOMAIN a.predecessors}

\* every predecessor id is the id of an activity
AllPredecessorsExist == \A id \in ActivityIds : PredecessorIds(id) \subseteq ActivityIds

\* the activities reached from the set `seen` along predecessor links
RECURSIVE ReachedFrom(_)
ReachedFrom(seen) ==
    LET more == seen \cup UNION {PredecessorIds(id) \cap ActivityIds : id \in seen}
    IN IF more = seen THEN seen ELSE ReachedFrom(more)

\* the activities `id` depends on, directly or through others
DependsOn(id) == ReachedFrom(PredecessorIds(id) \cap ActivityIds)

OnCycle(id) == id \in DependsOn(id)
HasCycle == \E id \in ActivityIds : OnCycle(id)

\* the activity is on a cycle or depends on one
BlockedByCycle(id) == OnCycle(id) \/ \E c \in DependsOn(id) : OnCycle(c)

Unscheduled(id) == schedule[id].start = None /\ schedule[id].end = None
Dated(id) == schedule[id].start # None /\ schedule[id].end # None

\* C9: on a graph with a cycle the scheduler returns without raising after at
\* most 2 x N passes, leaves start and end null for every activity on a cycle
\* or depending on one, and dates every other activity.
C9_CycleLeavesNull ==
    (pc # "new" /\ AllPredecessorsExist /\ HasCycle) =>
        /\ pc = "scheduled"
        /\ iterations <= 2 * Len(activities)
        /\ \A id \in ActivityIds :
             IF BlockedByCycle(id) THEN Unscheduled(id) ELSE Dated(id)

\* a cycle, an activity outside it that depends on it, and an activity dated
C9_Witness ==
    /\ pc = "scheduled"
    /\ AllPredecessorsExist
    /\ HasCycle
    /\ \E id \in ActivityIds : BlockedByCycle(id) /\ ~OnCycle(id) /\ Unscheduled(id)
    /\ \E id \in ActivityIds : ~BlockedByCycle(id) /\ Dated(id)

\* the activity names a predecessor id that no activity has
NamesMissingPredecessor(id) == ~(PredecessorIds(id) \subseteq ActivityIds)

\* C10: when an activity names a predecessor id that no activity has, the
\* scheduler does not raise; it leaves that activity's start and end null.
C10_MissingPredecessorLeavesNull ==
    (pc # "new" /\ \E id \in ActivityIds : NamesMissingPredecessor(id)) =>
        /\ pc # "raised"
        /\ \A id \in ActivityIds : NamesMissingPredecessor(id) => Unscheduled(id)

----------------------------------------------------------------------------
(* Critical path: ResourceAllocator.get_critical_path *)

\* the ids of the activities, descending: sorted(self.activities, key=-id)
RECURSIVE Descending(_)
Descending(S) ==
    IF S = {} THEN <<>>
    ELSE LET m == CHOOSE x \in S : \A y \in S : x >= y
         IN <<m>> \o Descending(S \ {m})

\* successors = [a for a in self.activities if activity.id in a.predecessors]
Successors(acts, id) ==
    {acts[k].id : k \in {j \in DOMAIN acts : id \in Range(acts[j].predecessors)}}

\* min(latest_finish[s.id] - duration_days of s for s in successors)
MinSuccessorStart(sched, latest_finish, successors) ==
    LET starts == {latest_finish[s] - sched[s].duration_days : s \in successors}
    IN CHOOSE m \in starts : \A x \in starts : m <= x

\* the backward pass: one visit of each id of `order`, from position k
RECURSIVE BackwardPass(_, _, _, _, _, _)
BackwardPass(acts, sched, project_end, order, k, latest_finish) ==
    IF k > Len(order) THEN latest_finish
    ELSE LET id == order[k]
             successors == Successors(acts, id)
         IN BackwardPass(acts, sched, project_end, order, k + 1,
                [latest_finish EXCEPT ![id] =
                    IF successors # {}
                    THEN MinSuccessorStart(sched, latest_finish, successors)
                    ELSE project_end])

\* latest_finish after `Initialize` and `Backward pass`
LatestFinish(acts, sched) ==
    LET ids == {acts[k].id : k \in DOMAIN acts}
        project_end == CompletionDate(sched)
    IN BackwardPass(acts, sched, project_end, Descending(ids), 1,
                    [id \in ids |-> project_end])

\* abs((earliest_start - latest_start).days)
Abs(x) == IF x < 0 THEN -x ELSE x

\* get_critical_path: the sorted list of critical ids
get_critical_path(acts, sched) ==
    LET latest_finish == LatestFinish(acts, sched)
    IN Ascending({id \in DOMAIN latest_finish :
                    /\ sched[id].start # None
                    /\ Abs(sched[id].start
                           - (latest_finish[id] - sched[id].duration_days)) <= 1})

\* the latest finish as the recurrence over successors defines it
RECURSIVE LatestFinishOf(_)
LatestFinishOf(id) ==
    LET successors == Successors(activities, id)
        starts == {LatestFinishOf(s) - ActivityById(s).duration_days : s \in successors}
    IN IF successors = {} THEN CompletionDate(schedule)
       ELSE CHOOSE m \in starts : \A x \in starts : m <= x

\* the ids whose earliest and latest start differ by at most one day
ZeroSlackIds ==
    {id \in ActivityIds :
        /\ schedule[id].start # None
        /\ Abs(schedule[id].start
               - (LatestFinishOf(id) - ActivityById(id).duration_days)) <= 1}

\* the scheduler has dated every activity of a graph without cycle
AcyclicScheduled == pc = "scheduled" /\ AllPredecessorsExist /\ ~HasCycle

\* C11: for any acyclic graph get_critical_path returns, ascending, exactly
\* the scheduled ids whose earliest start is within one day of latest finish
\* minus duration, the latest finish being the completion date without
\* successors and else the minimum of the successors' latest starts.
C11_CriticalPathIsZeroSlack ==
    AcyclicScheduled => get_critical_path(activities, schedule) = Ascending(ZeroSlackIds)

\* the same, when every predecessor id is smaller than the id naming it: holds
CriticalPathWhenIdsFollowDependencies ==
    (AcyclicScheduled /\ IdsFollowDependencies)
        => get_critical_path(activities, schedule) = Ascending(ZeroSlackIds)

----------------------------------------------------------------------------
(* The scheduler called again and again while durations are revised, as     *)
(* allocate_resources does: any graph over the ids, cycles included.        *)

\* activity.duration_days = adjusted_duration, for one activity not revised
\* before: the duration is revised to half of it, rounded up
ReviseDuration ==
    /\ pc = "scheduled"
    /\ \E i \in DOMAIN activities :
        /\ activities[i].duration_days \in DurationChoices
        /\ activities' = [activities EXCEPT
                            ![i].duration_days = (activities[i].duration_days + 1) \div 2]
    /\ UNCHANGED <<resources, schedule, allocation_map, max_tasks, factor, pc, next_idx,
                   iterations, results, scheduler_calls, riskVars, callerVars, adj>>

InitReschedule ==
    /\ \E preds \in [AllocIds -> SUBSET AllocIds], d \in DurationChoices :
        activities = [i \in 1..Cardinality(AllocIds) |->
                        NewActivity(i, d, 1, Ascending(preds[i]), Requirement(i))]
    /\ resources = <<>>
    /\ FreshAllocator
    /\ NoRisks
    /\ adj = None

NextReschedule ==
    \/ CalculateActivitySchedule
    \/ ReviseDuration

SpecReschedule == InitReschedule /\ [][NextReschedule]_vars

\* the first working day on or after day d
FirstWorkingDayFrom(d) == CHOOSE w \in d..(d + 2) : Weekday(w) < 5 /\ \A v \in d..(w - 1) : Weekday(v) >= 5

\* the earliest day that lies n working days after day s
DayAfterWorkingDays(s, n) ==
    CHOOSE e \in s..(s + 2 * n + 2) :
        /\ WorkingDaysBetween(s, e) = n
        /\ \A v \in s..(e - 1) : WorkingDaysBetween(s, v) < n

\* earliest start and end of an activity that no cycle blocks, from the
\* current durations and predecessors alone
RECURSIVE EarliestEnd(_)
EarliestStart(id) ==
    LET ends == {EarliestEnd(p) : p \in PredecessorIds(id)}
    IN FirstWorkingDayFrom(IF ends = {} THEN PROJECT_START
                           ELSE CHOOSE m \in ends : \A x \in ends : x <= m)

EarliestEnd(id) == DayAfterWorkingDays(EarliestStart(id), ActivityById(id).duration_days)

\* the schedule that the current activity set determines
ExpectedSchedule ==
    [id \in ActivityIds |->
        IF BlockedByCycle(id)
        THEN [start |-> None, end |-> None,
              duration_days |-> ActivityById(id).duration_days]
        ELSE [start |-> EarliestStart(id), end |-> EarliestEnd(id),
              duration_days |-> ActivityById(id).duration_days]]

\* no duration was revised since the last scheduler call: a revision always
\* changes the duration, and a call copies every duration into the schedule
ScheduledSinceRevision ==
    /\ pc = "scheduled"
    /\ \A id \in ActivityIds : schedule[id].duration_days = ActivityById(id).duration_days

\* a scheduler call on the activity set the previous call saw
CallOnUnchangedSet ==
    ScheduledSinceRevision /\ activities' = activities /\ pc' = "scheduled"

\* C12: every scheduler call leaves the schedule that the current durations
\* and predecessors determine, whatever schedule was held before, and a call
\* on an unchanged activity set leaves the schedule as the previous call did.
C12_RescheduleOverwrites ==
    /\ [](ScheduledSinceRevision => schedule = ExpectedSchedule)
    /\ [][CallOnUnchangedSet => schedule' = schedule]_vars

\* a call has replaced the schedule of longer durations by that of revised ones
C12_Witness ==
    /\ ScheduledSinceRevision
    /\ schedule = ExpectedSchedule
    /\ \E id \in ActivityIds :
        /\ ActivityById(id).duration_days \notin DurationChoices
        /\ Dated(id)
        /\ PredecessorIds(id) # {}

----------------------------------------------------------------------------
(* Properties of one allocation step *)

\* the step allocates the activity that is next in id order
AllocationStep == pc = "allocating" /\ next_idx <= Len(activities) /\ next_idx' = next_idx + 1

CurrentActivity == ActivityById(Ascending(ActivityIds)[next_idx])

\* the resource has a nonzero level in every skill required above level 0
HasRequiredSkills(r, requirements) ==
    \A skill \in Skills : requirements[skill] > 0 => r.skills[skill] # 0

\* pool positions of the resources available in the activity's week and below
\* the task limit, before the step
AvailableBelowLimit ==
    {i \in DOMAIN resources :
        /\ is_available(resources[i], ActivityWeek(schedule, CurrentActivity.id))
        /\ Len(resources[i].assigned_tasks) < max_tasks}

\* those of them with every required skill
Candidates ==
    {i \in AvailableBelowLimit :
        HasRequiredSkills(resources[i], CurrentActivity.skill_requirements)}

\* the first n elements of a sequence
FirstOf(s, n) == SubSeq(s, 1, Min(n, Len(s)))

\* the step records `assigned` for the current activity: in the allocation
\* map, and as one more task of each assigned resource and of no other
RecordsAssignment(assigned) ==
    /\ Allocated(allocation_map', CurrentActivity.id) = assigned
    /\ \A i \in DOMAIN resources :
        resources'[i].assigned_tasks =
            IF i \in Range(assigned)
            THEN Append(resources[i].assigned_tasks, CurrentActivity.id)
            ELSE resources[i].assigned_tasks

\* C13: when no resource available in the activity's week and below the task
\* limit has all the required skills, the activity gets the first
\* min(num_people, k) of the k available, below-limit resources in pool
\* order, recorded in the allocation map and the task lists, and the run goes on.
C13_FallbackInPoolOrder ==
    [][(AllocationStep /\ Candidates = {}) =>
          /\ RecordsAssignment(FirstOf(Ascending(AvailableBelowLimit),
                                       CurrentActivity.num_people))
          /\ pc' = "allocating"
          /\ activities' = activities
          /\ schedule' = schedule]_vars

\* an activity of one person holds the first resource of the pool, which lacks
\* a required skill, while the second, as unskilled, was available and free
C13_Witness ==
    /\ pc = "done"
    /\ \E id \in DOMAIN allocation_map :
        /\ ActivityById(id).num_people = 1
        /\ allocation_map[id] = <<1>>
        /\ ~HasRequiredSkills(resources[1], ActivityById(id).skill_requirements)
        /\ ~HasRequiredSkills(resources[2], ActivityById(id).skill_requirements)
        /\ is_available(resources[2], ActivityWeek(schedule, id))
        /\ Len(resources[2].assigned_tasks) < max_tasks

----------------------------------------------------------------------------
(* Properties of the stored selections *)

\* C14: after optimize_mitigation_strategy has returned a strategy, for the
\* risk at every position i both selected_mitigation and
\* mitigation_selections[risk.id] are the i-th option of the returned
\* combination, and that option is one of the risk's own menu.
C14_SelectionsStored ==
    (pc = "optimized" /\ best_strategy # NoneDict) =>
        /\ Len(best_strategy.mitigations) = Len(risks)
        /\ \A i \in DOMAIN risks :
            /\ risks[i].selected_mitigation = best_strategy.mitigations[i]
            /\ risks[i].id \in DOMAIN mitigation_selections
            /\ mitigation_selections[risks[i].id] = best_strategy.mitigations[i]
            /\ \E j \in DOMAIN risks[i].mitigation_options :
                 risks[i].mitigation_options[j] = best_strategy.mitigations[i]

\* a strategy was returned that picks different options for the two risks,
\* neither the first of its menu
C14_Witness ==
    /\ pc = "optimized"
    /\ best_strategy # NoneDict
    /\ risks[1].selected_mitigation # risks[2].selected_mitigation
    /\ \A i \in DOMAIN risks :
        /\ risks[i].selected_mitigation # NoneDict
        /\ risks[i].selected_mitigation # risks[i].mitigation_options[1]

----------------------------------------------------------------------------
(* Properties of the schedule an allocation run leaves *)

\* C15: during the allocation loop and when allocate_resources returns, the
\* stored schedule is the one the current durations determine: every entry's
\* duration_days is the activity's duration_days and every date is the
\* earliest one for the durations as they are now.
C15_ScheduleOfFinalDurations ==
    pc \in {"allocating", "done"} => schedule = ExpectedSchedule

\* the run has returned with an adjusted activity and a dated activity that
\* names it as a predecessor
C15_Witness ==
    /\ pc = "done"
    /\ \E id \in ActivityIds, s \in ActivityIds :
        /\ DurationAdjusted(ActivityById(id))
        /\ id \in PredecessorIds(s)
        /\ Dated(s)
        /\ schedule[s].start = schedule[id].end

----------------------------------------------------------------------------
(* Properties of _adjust_duration on its own, continued *)

\* the sum over the assigned resources and the skills required above level 0
\* of (resource level - required level): a level below the requirement counts
\* as a negative term
SignedSurplus(allocated_skills, requirements) ==
    SeqSum([k \in DOMAIN allocated_skills |->
              SeqSum([j \in DOMAIN SkillList |->
                        IF requirements[SkillList[j]] > 0
                        THEN allocated_skills[k][SkillList[j]] - requirements[SkillList[j]]
                        ELSE 0])])

\* max(1, round(max(0.5 x B, B - factor x S) / (headcount x 8))), B = headcount
\* x duration x 8, halves rounded up
DurationForSurplus(S) ==
    LET B == adj.num_people * adj.duration_days * HOURS_PER_DAY
        hours_twice == Max(B, 2 * (B - adj.factor * S))
    IN Max(1, (hours_twice + adj.num_people * HOURS_PER_DAY)
                  \div (2 * adj.num_people * HOURS_PER_DAY))

\* C16: the adjusted duration is max(1, round(max(0.5 x B, B - factor x S) /
\* (headcount x 8))) for the total skill surplus S over all assigned resources
\* and required skills, a level below the requirement reducing S.
C16_DeficitsReduceSurplus ==
    pc = "adjusted" =>
        adj.result = DurationForSurplus(SignedSurplus(adj.allocated_skills,
                                                      adj.skill_requirements))

\* no assigned resource is below a required level
NoDeficit ==
    \A k \in DOMAIN adj.allocated_skills : \A skill \in Skills :
        adj.skill_requirements[skill] > 0
            => adj.allocated_skills[k][skill] >= adj.skill_requirements[skill]

\* the same, when no assigned resource is below a required level: holds
AdjustedDurationWithoutDeficit ==
    (pc = "adjusted" /\ NoDeficit) =>
        adj.result = DurationForSurplus(SignedSurplus(adj.allocated_skills,
                                                      adj.skill_requirements))

\* the formula with every level below the requirement counted as no surplus: holds
AdjustedDurationIgnoringDeficits ==
    pc = "adjusted" =>
        adj.result = DurationForSurplus(
            SeqSum([k \in DOMAIN adj.allocated_skills |->
                SeqSum([j \in DOMAIN SkillList |->
                    IF adj.skill_requirements[SkillList[j]] > 0
                    THEN Max(0, adj.allocated_skills[k][SkillList[j]]
                                - adj.skill_requirements[SkillList[j]])
                    ELSE 0])]))

\* C17: the duration _adjust_duration returns for an activity of duration
\* d >= 1 is at most d, whatever the levels of the assigned resources, levels
\* below the requirement included.
C17_NeverLonger ==
    pc = "adjusted" => adj.result <= adj.duration_days

\* every assigned resource is below a required level, and the duration stays
C17_Witness ==
    /\ pc = "adjusted"
    /\ adj.factor > 0
    /\ adj.duration_days > 1
    /\ SignedSurplus(adj.allocated_skills, adj.skill_requirements) < 0
    /\ adj.result = adj.duration_days

----------------------------------------------------------------------------
(* Resource.matches_skills on its own: any skill levels against any          *)
(* requirements.  adj holds the arguments of the call and its result.        *)

\* skill maps with every level from 0 (skill absent) to MaxLevel
LevelChoices == [Skills -> 0..MaxLevel]

\* one call of resource.matches_skills(requirements)
MatchesSkills ==
    /\ pc = "match"
    /\ adj' = [adj EXCEPT !.result = matches_skills([skills |-> adj.skills], adj.requirements)]
    /\ pc' = "matched"
    /\ UNCHANGED <<allocVars, riskVars, callerVars>>

InitMatch ==
    /\ adj \in [skills : LevelChoices, requirements : LevelChoices, result : {None}]
    /\ activities = <<>>
    /\ resources = <<>>
    /\ schedule = <<>>
    /\ allocation_map = <<>>
    /\ max_tasks = None
    /\ factor = None
    /\ next_idx = 0
    /\ iterations = 0
    /\ scheduler_calls = 0
    /\ given_activities = activities
    /\ given_resources = resources
    /\ results = None
    /\ pc = "match"
    /\ NoRisks

NextMatch == MatchesSkills

SpecMatch == InitMatch /\ [][NextMatch]_vars

\* the skills required above level 0
RequiredSkills(requirements) == {skill \in Skills : requirements[skill] > 0}

\* the sum over a set of skills of (resource level - required level)
RECURSIVE LevelDifference(_, _, _)
LevelDifference(skills, requirements, S) ==
    IF S = {} THEN 0
    ELSE LET skill == CHOOSE x \in S : TRUE
         IN (skills[skill] - requirements[skill])
            + LevelDifference(skills, requirements, S \ {skill})

\* C18: matches_skills qualifies a resource exactly when it has a nonzero
\* level in every skill required above level 0; a qualified resource reports
\* the sum over the required skills of (level - required level), negative
\* when its levels are below the requirements, and a disqualified one
\* reports 0.
C18_MatchesSkills ==
    pc = "matched" =>
        LET required == RequiredSkills(adj.requirements)
            qualified == \A skill \in required : adj.skills[skill] # 0
        IN /\ adj.result.matches = qualified
           /\ adj.result.surplus =
                IF qualified THEN LevelDifference(adj.skills, adj.requirements, required)
                ELSE 0

\* a qualified resource below a required level, with a negative surplus,
\* while a skill required at level 0 is absent
C18_Witness ==
    /\ pc = "matched"
    /\ adj.result.matches
    /\ adj.result.surplus < 0
    /\ \E skill \in Skills : adj.requirements[skill] = 0 /\ adj.skills[skill] = 0

----------------------------------------------------------------------------
(* _allocate_to_activity on its own: one activity, a pool of three resources *)
(* of any levels, costs and availability, the third possibly at the task     *)
(* limit.  adj holds the list the call returns.                              *)

\* levels in the required skill: absent, below a requirement of 2, and high
PoolSkillChoices ==
    {[s \in Skills |-> IF s = SKILL_PETROLEUM THEN p ELSE 0] : p \in {0, 1, MaxLevel}}

\* there from week 1, never away
AlwaysAvailable == [start_week |-> 1, vacation_weeks |-> {}]

\* the resource with as many tasks as the limit allows
AtTaskLimit(r) == [r EXCEPT !.assigned_tasks = [k \in 1..MaxTasks |-> 2]]

\* one call of _allocate_to_activity(activity, max_tasks)
AllocateToActivity ==
    /\ pc = "allocate"
    /\ LET try == allocate_to_activity(activities[1], resources, schedule, max_tasks)
       IN /\ resources' = try.resources
          /\ adj' = try.allocated
    /\ pc' = "allocated"
    /\ UNCHANGED <<activities, schedule, allocation_map, max_tasks, factor, next_idx,
                   iterations, results, scheduler_calls, riskVars, callerVars>>

InitAllocate ==
    /\ \E n \in 1..MaxHeadcount, id \in {1, 3} :
        activities = <<NewActivity(id, 1, n, <<>>, Requirement(id))>>
    /\ \E start \in {PROJECT_START, PROJECT_START + 7} :
        schedule = [id \in {activities[1].id} |->
                      [start |-> start, end |-> start + 1, duration_days |-> 1]]
    /\ \E c \in [1..3 -> {1, 2}], sk \in [1..3 -> PoolSkillChoices],
          av1 \in AvailabilityChoices(1), av2 \in AvailabilityChoices(2),
          busy \in BOOLEAN :
        resources = <<NewResource(1, c[1], av1, sk[1]),
                      NewResource(2, c[2], av2, sk[2]),
                      IF busy
                      THEN AtTaskLimit(NewResource(3, c[3], AlwaysAvailable, sk[3]))
                      ELSE NewResource(3, c[3], AlwaysAvailable, sk[3])>>
    /\ allocation_map = <<>>
    /\ max_tasks = MaxTasks
    /\ factor = None
    /\ next_idx = 0
    /\ iterations = 0
    /\ scheduler_calls = 0
    /\ given_activities = activities
    /\ given_resources = resources
    /\ results = None
    /\ adj = None
    /\ pc = "allocate"
    /\ NoRisks

NextAllocate == AllocateToActivity

SpecAllocate == InitAllocate /\ [][NextAllocate]_vars

\* the candidates of the call: pool positions of the resources available in
\* the activity's week, below the task limit and with every required skill
PoolCandidates ==
    {i \in DOMAIN resources :
        /\ is_available(resources[i], ActivityWeek(schedule, activities[1].id))
        /\ Len(resources[i].assigned_tasks) < max_tasks
        /\ HasRequiredSkills(resources[i], activities[1].skill_requirements)}

\* the surplus of a candidate
PoolSurplus(i) ==
    LevelDifference(resources[i].skills, activities[1].skill_requirements,
                    RequiredSkills(activities[1].skill_requirements))

\* candidate i ranks strictly before candidate j: a higher surplus, or the
\* same surplus at a lower hourly cost
RanksBefore(i, j) ==
    \/ PoolSurplus(i) > PoolSurplus(j)
    \/ (PoolSurplus(i) = PoolSurplus(j)
        /\ resources[i].cost_per_hour < resources[j].cost_per_hour)

\* C19: the resources assigned through the skill-matched path are the first
\* min(num_people, number of candidates) of the candidates ordered by surplus
\* descending, then hourly cost ascending: no candidate left out ranks
\* strictly before an assigned one, and each assigned resource gains the
\* activity id.
C19_BestCandidatesAssigned ==
    [][(pc = "allocate" /\ pc' = "allocated" /\ PoolCandidates # {}) =>
          /\ Len(adj') = Min(activities[1].num_people, Cardinality(PoolCandidates))
          /\ Range(adj') \subseteq PoolCandidates
          /\ Cardinality(Range(adj')) = Len(adj')
          /\ \A j, k \in DOMAIN adj' : j < k => ~RanksBefore(adj'[k], adj'[j])
          /\ \A i \in Range(adj') : \A u \in PoolCandidates \ Range(adj') : ~RanksBefore(u, i)
          /\ \A i \in DOMAIN resources :
                resources'[i].assigned_tasks =
                    IF i \in Range(adj')
                    THEN Append(resources[i].assigned_tasks, activities[1].id)
                    ELSE resources[i].assigned_tasks]_vars

\* two people assigned, the third of the pool then the second: the third has
\* the higher surplus at no lower cost, and the second is cheaper than the
\* first, a candidate of the same surplus that is left out
C19_Witness ==
    /\ pc = "allocated"
    /\ adj = <<3, 2>>
    /\ activities[1].num_people = 2
    /\ 1 \in PoolCandidates
    /\ PoolSurplus(3) > PoolSurplus(2)
    /\ resources[3].cost_per_hour > resources[2].cost_per_hour
    /\ PoolSurplus(1) = PoolSurplus(2)
    /\ resources[1].cost_per_hour > resources[2].cost_per_hour

----------------------------------------------------------------------------
(* Properties of the optimizer's choice among equals *)

\* the position of the option that a combination takes from the menu of risk k
PositionInMenu(c, k) ==
    CHOOSE j \in DOMAIN risks[k].mitigation_options : risks[k].mitigation_options[j] = c[k]

\* combination c comes before d in Cartesian-product order: at the first risk
\* where they differ, c takes the earlier option of the menu
ComesBefore(c, d) ==
    \E k \in DOMAIN risks :
        /\ PositionInMenu(c, k) < PositionInMenu(d, k)
        /\ \A j \in 1..(k - 1) : c[j] = d[j]

\* the combinations the budget allows whose net benefit no other such
\* combination exceeds
BestWithinBudget(budget) ==
    {c \in WithinBudget(budget) :
        \A d \in WithinBudget(budget) : NetBenefit(risks, c) >= NetBenefit(risks, d)}

\* the strategy holds the first, in product order, of the best combinations
FirstOfBest(budget, best) ==
    /\ best.mitigations \in BestWithinBudget(budget)
    /\ \A c \in BestWithinBudget(budget) : ~ComesBefore(c, best.mitigations)

\* C20: among the combinations the budget allows that share the maximal net
\* benefit, the optimizer returns the one that comes first in
\* Cartesian-product order.
C20_FirstSeenWinsTies ==
    (pc = "optimized" /\ best_strategy # NoneDict)
        => FirstOfBest(budget_constraint, best_strategy)

\* the same, for every budget but 0: this holds
FirstSeenWinsTiesUnlessBudgetZero ==
    (pc = "optimized" /\ best_strategy # NoneDict /\ budget_constraint # 0)
        => FirstOfBest(budget_constraint, best_strategy)

\* ties do occur: a strategy returned while another combination the budget
\* allows has the same, maximal, net benefit
TiedBestReturned ==
    /\ pc = "optimized"
    /\ best_strategy # NoneDict
    /\ budget_constraint # 0
    /\ Cardinality(BestWithinBudget(budget_constraint)) > 1
    /\ \E k \in DOMAIN risks : PositionInMenu(best_strategy.mitigations, k) > 1

----------------------------------------------------------------------------
(* Properties of the forward pass on graphs without cycle *)

\* C21: for any graph without cycle whose predecessor ids all exist, in any
\* order of the list, the scheduler gives every activity a start and an end:
\* the cap of twice the activity count never stops the forward pass early.
C21_AcyclicFullyScheduled ==
    (pc # "new" /\ AllPredecessorsExist /\ ~HasCycle) =>
        /\ pc = "scheduled"
        /\ \A id \in ActivityIds : Dated(id)

\* a chain listed against its dependency order: each pass dates one activity,
\* and one more pass finds nothing left
C21_Witness ==
    /\ pc = "scheduled"
    /\ AllPredecessorsExist
    /\ ~HasCycle
    /\ iterations = Len(activities) + 1
    /\ \A id \in ActivityIds : Dated(id)

----------------------------------------------------------------------------
(* The allocation run as a whole *)

\* allocate_resources has returned or raised
RunOver == pc \in {"done", "raised"}

\* control moves on: the run takes its first step, goes on to the next
\* activity, or ends
ControlMovesOn ==
    /\ ~RunOver
    /\ pc' \in {"allocating", "done", "raised"}
    /\ next_idx' \in {1, next_idx, next_idx + 1}
    /\ <<pc', next_idx'>> # <<pc, next_idx>>

\* allocate_resources is one sequential call: until it has returned or raised,
\* the interpreter executes its next statement
SpecLive == Spec /\ WF_<<pc, next_idx>>(ControlMovesOn)

\* the activities whose turn in the loop is still to come
AwaitingAllocation ==
    {Ascending(ActivityIds)[k] : k \in Max(next_idx, 1)..Len(activities)}

\* C22: one allocate_resources run always terminates; during it the duration
\* of an activity changes at most once, in that activity's own allocation step
\* and never when the step takes the fallback path; and the scheduler is
\* called at most 1 + N times for N activities.
C22_RunTerminates ==
    /\ <>RunOver
    /\ [](scheduler_calls <= 1 + Len(activities))
    /\ [](\A id \in AwaitingAllocation : ~DurationAdjusted(ActivityById(id)))
    /\ [][\A k \in DOMAIN activities :
            activities'[k].duration_days # activities[k].duration_days =>
                /\ AllocationStep
                /\ activities[k].id = CurrentActivity.id
                /\ Candidates # {}
                /\ scheduler_calls' = scheduler_calls + 1]_vars

\* a run that returned after the first schedule and at least one more, an
\* activity keeping its duration with a resource that lacks a required skill
C22_Witness ==
    /\ pc = "done"
    /\ scheduler_calls > 1
    /\ \E id \in ActivityIds :
        /\ ~DurationAdjusted(ActivityById(id))
        /\ \E i \in Range(Allocated(allocation_map, id)) :
            ~HasRequiredSkills(resources[i], ActivityById(id).skill_requirements)

----------------------------------------------------------------------------
(* Properties of the results *)

\* the sum of f over a finite set
RECURSIVE SumOver(_, _)
SumOver(S, f) ==
    IF S = {} THEN 0
    ELSE LET x == CHOOSE x \in S : TRUE IN f[x] + SumOver(S \ {x}, f)

\* pool positions of the resources assigned to an activity
AssignedTo(id) == Range(Allocated(allocation_map, id))

\* the activities a resource is assigned to
ActivitiesOf(i) == {id \in ActivityIds : i \in AssignedTo(id)}

\* one resource's hours on an activity: final duration x 8 / number of the
\* resources assigned, in units of 1 / HoursScale hours
ShareOfHours(id) ==
    (ActivityById(id).duration_days * HOURS_PER_DAY * HoursScale(resources))
        \div Cardinality(AssignedTo(id))

\* hours a resource has from its activities
HoursFromActivities(i) ==
    SumOver(ActivitiesOf(i), [id \in ActivitiesOf(i) |-> ShareOfHours(id)])

\* hours a resource has as a member of the core team
HoursFromCoreTeam(i) ==
    IF resources[i].is_core_team
    THEN CoreTeamHours(resources[i], schedule, resources) ELSE 0

\* C23: in the results each activity costs the sum over its assigned resources
\* of hourly rate x (final duration x 8 / number of resources assigned), 0
\* when none is assigned, and the same amounts are accumulated into each
\* resource's total hours and total cost.
C23_ActivityCosts ==
    pc = "done" =>
        /\ \A id \in ActivityIds :
            results.activity_costs[id] =
                IF AssignedTo(id) = {} THEN 0
                ELSE SumOver(AssignedTo(id),
                             [i \in AssignedTo(id) |->
                                resources[i].cost_per_hour * ShareOfHours(id)])
        /\ \A i \in DOMAIN resources :
            /\ resources[i].total_hours = HoursFromActivities(i) + HoursFromCoreTeam(i)
            /\ resources[i].total_cost =
                 resources[i].cost_per_hour
                    * (HoursFromActivities(i) + HoursFromCoreTeam(i))

\* an activity whose duration was adjusted shares its hours between two
\* resources of different rates, and another has no resource
C23_Witness ==
    /\ pc = "done"
    /\ \E id \in ActivityIds :
        /\ DurationAdjusted(ActivityById(id))
        /\ \E i, j \in AssignedTo(id) :
            resources[i].cost_per_hour # resources[j].cost_per_hour
    /\ \E id \in ActivityIds :
        AssignedTo(id) = {} /\ results.activity_costs[id] = 0


\* pool positions of the core-team resources
CoreTeam == {i \in DOMAIN resources : resources[i].is_core_team}

\* Monday-to-Friday days from the project start to the completion date; the
\* first and the last day may each be counted or not
WorkingDayCounts ==
    {Cardinality({d \in (PROJECT_START + lo)..(results.completion_date - hi) :
                    Weekday(d) < 5}) : lo \in {0, 1}, hi \in {0, 1}}

\* the core-team cost for a project of so many working days, in the units of
\* the results
CoreTeamCostFor(working_days) ==
    SumOver(CoreTeam,
            [i \in CoreTeam |->
                working_days * HOURS_PER_DAY * resources[i].availability_pct
                    * resources[i].cost_per_hour * (HoursScale(resources) \div 100)])

\* C24: the core-team cost in the results is the sum over the core-team
\* resources of (Monday-to-Friday days between project start and completion)
\* x 8 hours x availability fraction x hourly rate, once per core-team
\* resource however many tasks it has.
C24_CoreTeamCost ==
    pc = "done" =>
        \E working_days \in WorkingDayCounts :
            results.core_team_cost = CoreTeamCostFor(working_days)

\* the same with 5/7 of the calendar days from project start to completion in
\* place of the working days: holds
CoreTeamCostOfCalendarDays ==
    pc = "done" =>
        7 * results.core_team_cost =
            CoreTeamCostFor(5 * (results.completion_date - PROJECT_START))

----------------------------------------------------------------------------
(* Residual risk: calculate_residual_risk after any number of                *)
(* optimize_mitigation_strategy calls.  Probabilities are whole percents, so *)
(* the expected values are in hundredths.                                    *)

\* total_expected_cost and total_expected_time of calculate_expected_value_scenario
calculate_expected_value_scenario(rs) ==
    [total_expected_cost |->
        SeqSum([k \in DOMAIN rs |-> rs[k].probability * rs[k].cost_impact]),
     total_expected_time |->
        SeqSum([k \in DOMAIN rs |-> rs[k].probability * rs[k].time_impact_days])]

\* an impact that ignores by how much the reduction exceeds it
ResidualImpactUnclamped(impact, reduction) == impact - reduction

\* max(0, impact - reduction)
ResidualImpact(impact, reduction) == Max(0, impact - reduction)

\* expected_residual_cost of one risk
ExpectedResidualCost(r) ==
    IF r.selected_mitigation # NoneDict
    THEN r.probability * ResidualImpact(r.cost_impact, r.selected_mitigation.cost_reduction)
    ELSE r.probability * r.cost_impact

\* expected_residual_time of one risk
ExpectedResidualTime(r) ==
    IF r.selected_mitigation # NoneDict
    THEN r.probability
            * ResidualImpact(r.time_impact_days, r.selected_mitigation.time_reduction)
    ELSE r.probability * r.time_impact_days

calculate_residual_risk(rs) ==
    [expected_cost |-> SeqSum([k \in DOMAIN rs |-> ExpectedResidualCost(rs[k])]),
     expected_time_days |-> SeqSum([k \in DOMAIN rs |-> ExpectedResidualTime(rs[k])])]

\* one call of calculate_residual_risk, and of
\* calculate_expected_value_scenario to compare it with
CalculateResidualRisk ==
    /\ pc \in {"analyzer", "optimized"}
    /\ adj' = [residual |-> calculate_residual_risk(risks),
               expected |-> calculate_expected_value_scenario(risks)]
    /\ pc' = "residual"
    /\ UNCHANGED <<allocVars, riskVars, callerVars>>

\* impacts above and below the reductions of the option pool
ImpactChoices ==
    {[cost_impact |-> 8000, time_impact_days |-> 2],
     [cost_impact |-> 500, time_impact_days |-> 1]}

\* menus of at most one option
ShortMenus == MenusOfLength(0) \cup MenusOfLength(1)

InitResidual ==
    /\ \E menus \in [1..2 -> ShortMenus], p \in [1..2 -> ProbabilityChoices],
          impact \in [1..2 -> ImpactChoices] :
        risks = [k \in 1..2 |->
                    [NewRisk(k, p[k], menus[k]) EXCEPT
                        !.cost_impact = impact[k].cost_impact,
                        !.time_impact_days = impact[k].time_impact_days]]
    /\ mitigation_selections = <<>>
    /\ budget_constraint = None
    /\ best_strategy = NoneDict
    /\ activities = <<>>
    /\ NoResources
    /\ schedule = <<>>
    /\ iterations = 0
    /\ scheduler_calls = 0
    /\ given_activities = activities
    /\ given_resources = resources
    /\ adj = None
    /\ pc = "analyzer"

NextResidual ==
    \/ OptimizeMitigationStrategy
    \/ CalculateResidualRisk

SpecResidual == InitResidual /\ [][NextResidual]_vars

\* the reduction the selected option brings, none without a selection
SelectedCostReduction(r) ==
    IF r.selected_mitigation = NoneDict THEN 0 ELSE r.selected_mitigation.cost_reduction

SelectedTimeReduction(r) ==
    IF r.selected_mitigation = NoneDict THEN 0 ELSE r.selected_mitigation.time_reduction

\* C25: calculate_residual_risk returns the sum over the risks of probability
\* x max(0, cost impact - selected cost reduction) and of probability x
\* max(0, time impact - selected time reduction), the full impact for a risk
\* without selection; each total is at least 0 and at most the total of the
\* expected-value scenario.
C25_ResidualRisk ==
    pc = "residual" =>
        /\ adj.residual.expected_cost =
             SumOver(DOMAIN risks,
                     [k \in DOMAIN risks |->
                        risks[k].probability
                          * Max(0, risks[k].cost_impact - SelectedCostReduction(risks[k]))])
        /\ adj.residual.expected_time_days =
             SumOver(DOMAIN risks,
                     [k \in DOMAIN risks |->
                        risks[k].probability
                          * Max(0, risks[k].time_impact_days
                                    - SelectedTimeReduction(risks[k]))])
        /\ adj.residual.expected_cost >= 0
        /\ adj.residual.expected_time_days >= 0
        /\ adj.residual.expected_cost <= adj.expected.total_expected_cost
        /\ adj.residual.expected_time_days <= adj.expected.total_expected_time

\* one risk has a selected option that reduces cost and time by more than its
\* impact, the other has one that leaves part of its cost
C25_Witness ==
    /\ pc = "residual"
    /\ \E k \in DOMAIN risks :
        /\ risks[k].selected_mitigation # NoneDict
        /\ risks[k].selected_mitigation.cost_reduction > risks[k].cost_impact
        /\ risks[k].selected_mitigation.time_reduction > risks[k].time_impact_days
    /\ \E k \in DOMAIN risks :
        /\ risks[k].selected_mitigation # NoneDict
        /\ risks[k].selected_mitigation.cost_reduction \in 1..(risks[k].cost_impact - 1)
    /\ adj.residual.expected_cost > 0
    /\ adj.residual.expected_cost < adj.expected.total_expected_cost

----------------------------------------------------------------------------
(* The activities that end last *)

\* every activity has a start and an end
ScheduleComplete ==
    /\ pc = "scheduled"
    /\ \A id \in ActivityIds : Dated(id)

\* C26: when the schedule is complete, every activity that ends on the project
\* completion date is on the critical path, whatever its duration and the
\* weekday it starts on; so the critical path is not empty.
C26_LastActivitiesAreCritical ==
    ScheduleComplete =>
        /\ \A id \in ActivityIds :
            schedule[id].end = CompletionDate(schedule)
                => id \in Range(get_critical_path(activities, schedule))
        /\ get_critical_path(activities, schedule) # <<>>


\* the same for the activities whose span from start to end holds no weekend:
\* holds
LastActivitiesWithinAWeekAreCritical ==
    ScheduleComplete =>
        \A id \in ActivityIds :
            (/\ schedule[id].end = CompletionDate(schedule)
             /\ schedule[id].end - schedule[id].start = ActivityById(id).duration_days)
                => id \in Range(get_critical_path(activities, schedule))

----------------------------------------------------------------------------
(* The allocation map and the task lists *)

\* how many times an id occurs in a task list
Occurrences(tasks, id) == Cardinality({k \in DOMAIN tasks : tasks[k] = id})

\* C27: after allocate_resources an activity's id occurs in a resource's task
\* list, once, exactly when the resource is in the activity's entry of the
\* allocation map; every entry is non-empty, names no resource twice and has
\* at most num_people resources; and the tasks count reported for a resource
\* is the number of activities it is allocated to.
C27_MapAgreesWithTaskLists ==
    pc = "done" =>
        /\ \A i \in DOMAIN resources : \A id \in ActivityIds :
            /\ Occurrences(resources[i].assigned_tasks, id)
                 = (IF i \in AssignedTo(id) THEN 1 ELSE 0)
        /\ \A i \in DOMAIN resources :
            Range(resources[i].assigned_tasks) \subseteq ActivityIds
        /\ \A id \in DOMAIN allocation_map :
            /\ id \in ActivityIds
            /\ allocation_map[id] # <<>>
            /\ Cardinality(Range(allocation_map[id])) = Len(allocation_map[id])
            /\ Len(allocation_map[id]) <= ActivityById(id).num_people
            /\ Range(allocation_map[id]) \subseteq DOMAIN resources
        /\ results.allocation_map = allocation_map
        /\ \A i \in DOMAIN results.resource_utilization :
            results.resource_utilization[i].tasks = Cardinality(ActivitiesOf(i))

\* a resource with two activities, an activity with two resources and an
\* activity with none
C27_Witness ==
    /\ pc = "done"
    /\ \E i \in DOMAIN results.resource_utilization :
        results.resource_utilization[i].tasks = 2
    /\ \E id \in ActivityIds : Cardinality(AssignedTo(id)) = 2
    /\ \E id \in ActivityIds : id \notin DOMAIN allocation_map

----------------------------------------------------------------------------
(* Successive schedules of one allocation run *)

\* the schedule of the step's end has no date later than the schedule before it
NoDateLater ==
    \A id \in DOMAIN schedule :
        /\ id \in DOMAIN schedule'
        /\ schedule'[id].start <= schedule[id].start
        /\ schedule'[id].end <= schedule[id].end

\* the completion date of the provisional schedule, computed before any
\* assignment
ProvisionalCompletionDate ==
    CompletionDate(calculate_activity_schedule(given_activities).schedule)

\* C28: within one allocation run a scheduler re-run never moves an activity's
\* start or end date later than in the previous schedule; so the completion
\* date in the results is on or before that of the provisional schedule.
C28_DatesNeverLater ==
    /\ [][pc = "allocating" => NoDateLater]_vars
    /\ [](pc = "done" => results.completion_date <= ProvisionalCompletionDate)

\* a run whose completion date is earlier than that of the provisional schedule
C28_Witness ==
    /\ pc = "done"
    /\ scheduler_calls > 1
    /\ results.completion_date < ProvisionalCompletionDate

----------------------------------------------------------------------------
(* The objects the constructor was given *)

\* an allocator that keeps the caller's list of resources instead of a copy
SharedResources == resources

\* the caller's Activity objects: self.activities is a deep copy of them, so
\* they are apart from the allocator's
CallerActivities == given_activities

\* the caller's Resource objects: self.resources is a deep copy of them
CallerResources == given_resources

\* C29: constructing a ResourceAllocator and running allocate_resources leaves
\* the Activity and Resource objects given to the constructor unchanged:
\* durations, task lists, total hours and total cost keep their initial values.
C29_InputsUnchanged ==
    /\ [][/\ CallerActivities' = CallerActivities
          /\ CallerResources' = CallerResources]_vars
    /\ [](/\ \A k \in DOMAIN CallerActivities : ~DurationAdjusted(CallerActivities[k])
          /\ \A i \in DOMAIN CallerResources :
                /\ CallerResources[i].assigned_tasks = <<>>
                /\ CallerResources[i].total_hours = 0
                /\ CallerResources[i].total_cost = 0)

\* the run is over and the allocator's own activities and resources differ
\* from those it was given: a duration was adjusted, tasks and totals recorded
C29_Witness ==
    /\ pc = "done"
    /\ \E k \in DOMAIN activities :
        activities[k].duration_days < CallerActivities[k].duration_days
    /\ \E i \in DOMAIN resources :
        /\ resources[i].assigned_tasks # <<>>
        /\ resources[i].total_cost > 0
        /\ CallerResources[i].assigned_tasks = <<>>

----------------------------------------------------------------------------
(* The orchestrator: main.main, step by step.  adj holds the parsed flags,   *)
(* what the two service objects report as available, and the local names     *)
(* bound so far; a step that reads a name not yet bound raises               *)
(* UnboundLocalError.                                                        *)

AllocationNames == {"allocator", "allocation_results", "budget_status", "timeline_status"}
RiskNames == {"risk_analyzer", "risk_results"}
PathNames == {"xml_path", "resource_path", "allocation_path"}

\* a step of main that reads and then binds local names: it goes on to the
\* next step, or raises when one of the names it reads is not bound
MainStep(reads, binds, next) ==
    IF reads \subseteq adj.bound
    THEN /\ adj' = [adj EXCEPT !.bound = @ \cup binds]
         /\ pc' = next
    ELSE /\ adj' = adj
         /\ pc' = "unbound_local"

\* STEP 1: run_allocation and the budget and timeline checks
Step1ResourceAllocation ==
    /\ pc = "step1"
    /\ IF ~adj.report_only
       THEN MainStep({}, AllocationNames, "step2")
       ELSE MainStep({}, {}, "step2")
    /\ UNCHANGED <<allocVars, riskVars, callerVars>>

\* STEP 2: run_risk_analysis and the cost with mitigation
Step2RiskAnalysis ==
    /\ pc = "step2"
    /\ IF ~adj.report_only
       THEN MainStep({"allocation_results"}, RiskNames, "step3")
       ELSE MainStep({}, {}, "step3")
    /\ UNCHANGED <<allocVars, riskVars, callerVars>>

\* STEP 3: generate_ms_project_xml
Step3ProjectXml ==
    /\ pc = "step3"
    /\ IF ~adj.report_only
       THEN MainStep({"allocation_results"}, {"xml_path"}, "step4")
       ELSE MainStep({}, {}, "step4")
    /\ UNCHANGED <<allocVars, riskVars, callerVars>>

\* STEP 4: the two workbooks
Step4ExcelReports ==
    /\ pc = "step4"
    /\ IF ~adj.report_only
       THEN MainStep({"allocation_results"},
                     {"excel_gen", "resource_path", "allocation_path"}, "step5")
       ELSE MainStep({}, {}, "step5")
    /\ UNCHANGED <<allocVars, riskVars, callerVars>>

\* STEP 5: references, gathered or the fallback
Step5References ==
    /\ pc = "step5"
    /\ MainStep({}, {"ref_manager", "references"}, "step6")
    /\ UNCHANGED <<allocVars, riskVars, callerVars>>

\* STEP 6: executive summary and conclusions, from the assistant or the fallback
Step6AiContent ==
    /\ pc = "step6"
    /\ IF adj.ai_available
       THEN MainStep({"allocation_results", "budget_status", "timeline_status",
                      "risk_results"},
                     {"ai_assistant", "exec_summary", "conclusions"}, "step7")
       ELSE MainStep({}, {"ai_assistant", "exec_summary", "conclusions"}, "step7")
    /\ UNCHANGED <<allocVars, riskVars, callerVars>>

\* STEP 7: the list of deliverables, 'Skipped' under --report-only
Step7Deliverables ==
    /\ pc = "step7"
    /\ IF ~adj.report_only
       THEN MainStep(PathNames, {}, "summary")
       ELSE MainStep({}, {}, "summary")
    /\ UNCHANGED <<allocVars, riskVars, callerVars>>

\* FINAL PROJECT SUMMARY
FinalSummary ==
    /\ pc = "summary"
    /\ MainStep({"allocation_results", "allocator", "risk_results", "budget_status",
                 "timeline_status", "ai_assistant"},
                {"total_project_cost"}, "save")
    /\ UNCHANGED <<allocVars, riskVars, callerVars>>

\* the summary file
SaveSummary ==
    /\ pc = "save"
    /\ MainStep({"total_project_cost", "budget_status", "allocation_results",
                 "timeline_status", "exec_summary", "conclusions", "ai_assistant"},
                {"summary_path"}, "returned")
    /\ UNCHANGED <<allocVars, riskVars, callerVars>>

\* parse_args: any combination of the flags; the banner and the output directory
InitMain ==
    /\ adj \in [xml_only : BOOLEAN, report_only : BOOLEAN, verbose : BOOLEAN,
                ai_available : BOOLEAN, bound : {{"parser", "args", "output_dir"}}]
    /\ pc = "step1"
    /\ activities = <<>>
    /\ NoResources
    /\ schedule = <<>>
    /\ iterations = 0
    /\ scheduler_calls = 0
    /\ given_activities = activities
    /\ given_resources = resources
    /\ NoRisks

NextMain ==
    \/ Step1ResourceAllocation
    \/ Step2RiskAnalysis
    \/ Step3ProjectXml
    \/ Step4ExcelReports
    \/ Step5References
    \/ Step6AiContent
    \/ Step7Deliverables
    \/ FinalSummary
    \/ SaveSummary

SpecMain == InitMain /\ [][NextMain]_vars

\* C30: in every invocation mode of main (no flag, --xml-only, --report-only)
\* each step that reads the allocation results, the risk results, the budget
\* or timeline status or the generated file paths runs after a step of the
\* same run has produced them, so the run reaches the final project summary
\* without an undefined-result error.
C30_ResultsProducedBeforeRead == pc # "unbound_local"

\* the same without --report-only: holds
ResultsProducedBeforeReadUnlessReportOnly ==
    ~adj.report_only => pc # "unbound_local"

\* under --report-only no run gets past the final summary: holds
ReportOnlyNeverReturns ==
    adj.report_only => pc \notin {"save", "returned"}

====
